---- MODULE Spec2Model ----
(***************************************************************************)
(* Model of grisu48/util, cpp/hdf5.{hpp,cpp} and cpp/numeric.hpp:          *)
(*  - the HDF5File object with its registry of HDF5Object handles,         *)
(*  - the storage engine (libhdf5) as far as the calls of hdf5.cpp see it, *)
(*  - the numeric buffers Array, Matrix, Cube and Tesseract.               *)
(* Paths and names are sequences of one-character strings, attribute       *)
(* string values are sequences of byte values ending at NUL.               *)
(***************************************************************************)
EXTENDS Integers, Sequences, FiniteSets, TLC

\* ------------------------------------------------------------------ bounds
MaxHandles == 3        \* HDF5Object instances ever constructed on one file
MaxIds == 4            \* engine identifiers ever handed out

NULL == 0

VARIABLES
    phase,      \* "new" | "open" | "failed": the HDF5File constructor has not run / returned / thrown
    engine,     \* the storage engine: file contents and identifier table
    fid,        \* HDF5File::fid
    objects,    \* HDF5File::_objects
    rootGroup,  \* HDF5File::_rootGroup
    handles,    \* the HDF5Object instances, by key (the key stands for the object's address)
    ret,        \* the last call and what it returned or threw
    crashed,    \* the process was aborted by undefined behaviour
    num,        \* a numeric buffer (Array, Matrix, Cube or Tesseract), the state of its val
                \* pointer, its caller's loop position, and the object it was moved from
    wrote       \* the caller's copy of what it last wrote to each dataset

vars == <<phase, engine, fid, objects, rootGroup, handles, ret, crashed, num, wrote>>

\* ------------------------------------------------------------------ strings
ROOT == <<"/">>

RECURSIVE Squeeze(_)
\* runs of '/' count as one separator for the engine
Squeeze(p) ==
    IF Len(p) <= 1 THEN p
    ELSE IF p[1] = "/" /\ p[2] = "/" THEN Squeeze(Tail(p))
    ELSE <<p[1]>> \o Squeeze(Tail(p))

\* the engine's view of a path: no repeated and no trailing separator
Normalize(p) ==
    LET q == Squeeze(p)
    IN  IF Len(q) > 1 /\ q[Len(q)] = "/" THEN SubSeq(q, 1, Len(q) - 1) ELSE q

\* the engine resolves a name against the location it is given
Resolve(base, name) ==
    IF name # <<>> /\ name[1] = "/" THEN Normalize(name)
    ELSE Normalize(base \o <<"/">> \o name)

RECURSIVE LastSlash(_)
LastSlash(p) ==
    IF p = <<>> THEN 0
    ELSE IF p[Len(p)] = "/" THEN Len(p)
    ELSE LastSlash(SubSeq(p, 1, Len(p) - 1))

\* the group a normalized path lives in
ParentPath(p) ==
    LET i == LastSlash(p) IN IF i <= 1 THEN ROOT ELSE SubSeq(p, 1, i - 1)

\* ------------------------------------------------------------------ engine
ValidId(E, id) == id > 0 /\ id <= Len(E.ids) /\ E.ids[id].open

LinkKind(E, p) == IF p \in DOMAIN E.links THEN E.links[p] ELSE "none"

\* a fresh identifier for an opened object
NewId(E, kind, path, name) ==
    [e |-> [E EXCEPT !.ids = Append(@, [kind |-> kind, path |-> path, name |-> name,
                                        open |-> TRUE])],
     r |-> Len(E.ids) + 1]

Bump(n) == IF n < 2 THEN n + 1 ELSE n

\* H5Fclose / H5Gclose / H5Dclose / H5Aclose; badCloses counts the close calls made on
\* an identifier that is not open
H5close(E, kind, id) ==
    IF ValidId(E, id) /\ E.ids[id].kind = kind
    THEN [e |-> [E EXCEPT !.ids[id].open = FALSE], r |-> 0]
    ELSE [e |-> [E EXCEPT !.badCloses = Bump(@)], r |-> -1]

H5open(E, kind, loc, name) ==
    IF ValidId(E, loc) /\ name # <<>>
       /\ LinkKind(E, Resolve(E.ids[loc].path, name)) = kind
    THEN NewId(E, kind, Resolve(E.ids[loc].path, name), <<>>)
    ELSE [e |-> E, r |-> -1]

H5Gopen(E, loc, name) == H5open(E, "group", loc, name)
H5Dopen(E, loc, name) == H5open(E, "dataset", loc, name)

\* H5Fopen / H5Fcreate: ok is whether the engine can open or create the path
H5Fopen(E, readOnly, ok) ==
    IF ok /\ E.exists THEN NewId([E EXCEPT !.rdonly = readOnly], "file", ROOT, <<>>)
    ELSE [e |-> E, r |-> -1]

H5Fcreate(E, ok) ==
    IF ok
    THEN NewId([E EXCEPT !.exists = TRUE, !.rdonly = FALSE, !.links = (ROOT :> "group"),
                         !.dsets = <<>>, !.attrs = {}], "file", ROOT, <<>>)
    ELSE [e |-> E, r |-> -1]

OpenIds(E) == {i \in 1..Len(E.ids) : E.ids[i].open}


RECURSIVE Prod(_)
Prod(d) == IF d = <<>> THEN 1 ELSE Head(d) * Prod(Tail(d))

Zeros(n) == [i \in 1..n |-> 0]

\* what H5Gcreate and H5Dcreate2 require of the new link
CanCreate(E, loc, name) ==
    /\ ValidId(E, loc)
    /\ ~E.rdonly
    /\ name # <<>>
    /\ Resolve(E.ids[loc].path, name) \notin DOMAIN E.links
    /\ LinkKind(E, ParentPath(Resolve(E.ids[loc].path, name))) = "group"

\* H5Gcreate followed by H5Gclose of the identifier it returns
H5Gcreate(E, loc, name) ==
    IF CanCreate(E, loc, name)
    THEN [e |-> [E EXCEPT !.links = @ @@ (Resolve(E.ids[loc].path, name) :> "group")], r |-> 1]
    ELSE [e |-> E, r |-> -1]

\* H5Dcreate2 with a simple dataspace of extents dims; new elements hold the fill value 0
H5Dcreate2(E, loc, name, dims) ==
    IF CanCreate(E, loc, name)
    THEN [e |-> [E EXCEPT !.links = @ @@ (Resolve(E.ids[loc].path, name) :> "dataset"),
                          !.dsets = @ @@ (Resolve(E.ids[loc].path, name) :>
                                          [dims |-> dims, data |-> Zeros(Prod(dims))])],
          r |-> 1]
    ELSE [e |-> E, r |-> -1]

\* ---- dataspaces and element transfer
\* a dataspace: extents and the selected hyperslab (start, count); all of it at creation
Space(dims) == [dims |-> dims, start |-> [i \in 1..Len(dims) |-> 0], count |-> dims]

\* H5Sselect_hyperslab(space, H5S_SELECT_SET, start, NULL, count, NULL)
H5Sselect_hyperslab(space, start, count) ==
    IF Len(start) = Len(space.dims) /\ Len(count) = Len(space.dims)
    THEN [space |-> [space EXCEPT !.start = start, !.count = count], r |-> 0]
    ELSE [space |-> space, r |-> -1]

InExtent(space) ==
    \A i \in 1..Len(space.dims) : space.start[i] + space.count[i] <= space.dims[i]

\* the coordinate on axis i of the k-th (from 0) selected element: last axis fastest
Digit(count, k, i) == (k \div Prod(SubSeq(count, i + 1, Len(count)))) % count[i]

RECURSIVE FlatOffset(_, _, _, _, _)
\* the flat offset of that element in an extent of dims, over the axes from i on
FlatOffset(dims, start, count, k, i) ==
    IF i > Len(dims) THEN 0
    ELSE (start[i] + Digit(count, k, i)) * Prod(SubSeq(dims, i + 1, Len(dims)))
         + FlatOffset(dims, start, count, k, i + 1)

\* the flat offsets (from 0) of the selected elements, in the engine's order
Offsets(dims, start, count) ==
    [k \in 1..Prod(count) |-> FlatOffset(dims, start, count, k - 1, 1)]

SelOffsets(space) == Offsets(space.dims, space.start, space.count)

\* H5Dget_space
H5Dget_space(E, id) ==
    IF ValidId(E, id) /\ E.ids[id].kind = "dataset"
    THEN [space |-> Space(E.dsets[E.ids[id].path].dims), r |-> 1]
    ELSE [space |-> Space(<<>>), r |-> -1]

\* what H5Dread and H5Dwrite require of the two selections
CanTransfer(E, id, memspace, filespace) ==
    /\ ValidId(E, id) /\ E.ids[id].kind = "dataset"
    /\ InExtent(memspace) /\ InExtent(filespace)
    /\ Prod(memspace.count) = Prod(filespace.count)

\* the place in a selection of the element at flat position j (from 1), 0 if not selected
Place(sel, j) ==
    IF j <= Len(sel) /\ sel[j] + 1 = j THEN j
    ELSE IF \E k \in 1..Len(sel) : sel[k] + 1 = j
    THEN CHOOSE k \in 1..Len(sel) : sel[k] + 1 = j
    ELSE 0

\* H5Dread(dataset, H5T_NATIVE_DOUBLE, memspace, filespace, H5P_DEFAULT, buf):
\* the k-th selected element of the file goes to the k-th selected element of buf
H5Dread(E, id, memspace, filespace, buf) ==
    IF CanTransfer(E, id, memspace, filespace)
    THEN LET from == SelOffsets(filespace)
             to == SelOffsets(memspace)
             data == E.dsets[E.ids[id].path].data
         IN  [buf |-> [j \in 1..Len(buf) |->
                         IF Place(to, j) > 0 THEN data[from[Place(to, j)] + 1] ELSE buf[j]],
              r |-> 0]
    ELSE [buf |-> buf, r |-> -1]

\* H5Dwrite(dataset, H5T_NATIVE_DOUBLE, memspace, filespace, H5P_DEFAULT, buf)
H5Dwrite(E, id, memspace, filespace, buf) ==
    IF CanTransfer(E, id, memspace, filespace) /\ ~E.rdonly
    THEN LET from == SelOffsets(memspace)
             to == SelOffsets(filespace)
             p == E.ids[id].path
         IN  [e |-> [E EXCEPT !.dsets[p].data =
                        [j \in 1..Len(@) |->
                           IF Place(to, j) > 0 THEN buf[from[Place(to, j)] + 1] ELSE @[j]]],
              r |-> 0]
    ELSE [e |-> E, r |-> -1]

\* ---- attributes: records [obj, name, type, size, val] in E.attrs
HasAttr(E, obj, name) == \E a \in E.attrs : a.obj = obj /\ a.name = name
AttrOf(E, obj, name) == CHOOSE a \in E.attrs : a.obj = obj /\ a.name = name

\* H5Acreate2 / H5Acreate followed by H5Awrite of val
H5Acreate_write(E, loc, name, type, size, val) ==
    IF ValidId(E, loc) /\ ~E.rdonly /\ name # <<>> /\ ~HasAttr(E, E.ids[loc].path, name)
    THEN [e |-> [E EXCEPT !.attrs = @ \cup {[obj |-> E.ids[loc].path, name |-> name,
                                              type |-> type, size |-> size, val |-> val]}],
          r |-> 1]
    ELSE [e |-> E, r |-> -1]

\* H5Aopen
H5Aopen(E, loc, name) ==
    IF ValidId(E, loc) /\ name # <<>> /\ HasAttr(E, E.ids[loc].path, name)
    THEN NewId(E, "attr", E.ids[loc].path, name)
    ELSE [e |-> E, r |-> -1]

\* the attribute an open attribute identifier stands for
AttrById(E, id) == AttrOf(E, E.ids[id].path, E.ids[id].name)

\* H5Aread(id, <a native numeric type>, &result): no conversion exists from a string
H5Aread_num(E, id, result) ==
    IF ValidId(E, id) /\ E.ids[id].kind = "attr" /\ AttrById(E, id).type # "string"
    THEN [val |-> AttrById(E, id).val, r |-> 0]
    ELSE [val |-> result, r |-> -1]

\* the number of elements of an attribute: the bytes it holds over the bytes of one
\* element; a string attribute is one element
Npoints(a) ==
    IF a.type = "string" THEN 1
    ELSE a.size \div (IF a.type \in {"int", "float"} THEN 4 ELSE 8)

\* the elements of a numeric attribute in order
Elements(a) == IF Npoints(a) = 1 THEN <<a.val>> ELSE a.val

\* H5Aget_space: an identifier for the dataspace of the attribute; ok is whether the
\* engine step goes through
H5Aget_space(E, id, ok) ==
    IF ok /\ ValidId(E, id) /\ E.ids[id].kind = "attr"
    THEN NewId(E, "space", E.ids[id].path, E.ids[id].name)
    ELSE [e |-> E, r |-> -1]

\* H5Sget_simple_extent_npoints
H5Sget_simple_extent_npoints(E, sid, ok) ==
    IF ok /\ ValidId(E, sid) /\ E.ids[sid].kind = "space" THEN Npoints(AttrById(E, sid))
    ELSE -1

\* H5Aread(id, H5T_NATIVE_DOUBLE, result) into an array
H5Aread_array(E, id, ok) ==
    IF ok /\ ValidId(E, id) /\ E.ids[id].kind = "attr" /\ AttrById(E, id).type # "string"
    THEN [val |-> Elements(AttrById(E, id)), r |-> 0]
    ELSE [val |-> <<>>, r |-> -1]

\* ------------------------------------------------------------------ numeric.hpp
\* Matrix::index with the stride of the other axis
Matrix_index_otherStride(dims, x, y) == dims[2] * y + x

\* Matrix::index; dims[1] is the C++ dims[0]
Matrix_index(dims, x, y) == dims[1] * y + x

\* Cube::index with the last axis fastest
Cube_index_lastFastest(dims, x, y, z) == (x * dims[2] + y) * dims[3] + z

\* Cube::index
Cube_index(dims, x, y, z) == dims[1] * dims[2] * z + y * dims[1] + x

\* Tesseract::index
Tesseract_index(dims, x1, x2, x3, x4) ==
    x1 + x2 * dims[1] + x3 * dims[1] * dims[2] + x4 * dims[1] * dims[2] * dims[3]

\* the offset operator[] (rank 1) and operator() (rank 2 to 4) use for a coordinate tuple
index(dims, c) ==
    CASE Len(dims) = 1 -> c[1]
      [] Len(dims) = 2 -> Matrix_index(dims, c[1], c[2])
      [] Len(dims) = 3 -> Cube_index(dims, c[1], c[2], c[3])
      [] Len(dims) = 4 -> Tesseract_index(dims, c[1], c[2], c[3], c[4])

\* Array(n), Matrix(m, n), Cube(m, n, o), Tesseract(n1, n2, n3, n4): Array() then
\* resize(product), which callocs the elements
Buffer_new(dims) == [dims |-> dims, n |-> Prod(dims), val |-> Zeros(Prod(dims))]

\* Array(): val is NULL and n is 0
NoBuffer == [dims |-> <<>>, n |-> 0, val |-> <<>>]

RECURSIVE MaxIn(_)
MaxIn(d) == IF d = <<>> THEN 0
            ELSE IF Head(d) > MaxIn(Tail(d)) THEN Head(d) ELSE MaxIn(Tail(d))

\* the in-range coordinate tuples of a buffer, from 0
Coords(dims) ==
    {c \in [1..Len(dims) -> 0..(MaxIn(dims) - 1)] : \A i \in 1..Len(dims) : c[i] < dims[i]}

\* operator()(...) const and operator[](i) const
Buffer_get(b, c) == b.val[index(b.dims, c) + 1]

\* T& operator()(...) = v and operator[](i) = v
Buffer_set(b, c, v) == [b EXCEPT !.val[index(b.dims, c) + 1] = v]

\* what malloc, calloc and realloc give for a size of 0: a null pointer or a pointer to
\* nothing; realloc(p, 0) that gives the null pointer has freed p
ZeroAllocs == {"null", "unique"}

\* what a request can answer: one of ZeroAllocs when it asks for 0 bytes, memory otherwise
Allocs(m) == IF m = 0 THEN ZeroAllocs ELSE {"unique"}

Min(a, b) == IF a < b THEN a ELSE b

\* Array::resize(n) on the fields of b, whose val is the pointer state ptr
\* ("null", "heap", or "freed" once realloc has released it)
Array_resize(b, ptr, m, zero) ==
    IF ptr = "null"
    THEN [buf |-> [b EXCEPT !.n = m, !.val = Zeros(m)],
          ptr |-> IF m = 0 /\ zero = "null" THEN "null" ELSE "heap", status |-> "ok"]
    ELSE IF b.n = m THEN [buf |-> b, ptr |-> ptr, status |-> "ok"]
    ELSE IF m = 0 /\ zero = "null" THEN [buf |-> b, ptr |-> "freed", status |-> "error"]
    ELSE [buf |-> [b EXCEPT !.n = m,
                            !.val = SubSeq(b.val, 1, Min(b.n, m)) \o Zeros(m - Min(b.n, m))],
          ptr |-> ptr, status |-> "ok"]

\* Array::clear
Array_clear(b) == [b EXCEPT !.val = Zeros(b.n)]

\* Array::operator=(const T &t)
Array_assign(b, t) == [b EXCEPT !.val = [i \in 1..b.n |-> t]]

\* resize of an Array object: the record keeps its length as its one extent
Array_resize1(b, ptr, m, zero) ==
    LET r == Array_resize(b, ptr, m, zero)
    IN  [r EXCEPT !.buf.dims = <<r.buf.n>>]

\* Matrix::resize(m, n), Cube::resize(n1, n2, n3), Tesseract::resize(n1, n2, n3, n4)
Dims_resize(b, ptr, dims, zero) ==
    LET r == Array_resize(b, ptr, Prod(dims), zero)
    IN  IF r.status = "error" THEN r
        ELSE [r EXCEPT !.buf = Array_clear([r.buf EXCEPT !.dims = dims])]

\* the copy constructors: malloc and memcpy of src.n elements, the extents copied
Buffer_copy(b, zero) ==
    [buf |-> b, ptr |-> IF b.n = 0 /\ zero = "null" THEN "null" ELSE "heap"]

\* the move constructors: what is left in src
Buffer_moved_keepsDims(b) == [dims |-> b.dims, n |-> 0, val |-> <<>>]

Buffer_moved(b) == [dims |-> [i \in 1..Len(b.dims) |-> 0], n |-> 0, val |-> <<>>]

\* ------------------------------------------------------------------ state of one call
\* The handlers are written as operators on the record of everything a call can change.
St == [engine |-> engine, fid |-> fid, objects |-> objects, rootGroup |-> rootGroup,
       handles |-> handles, crashed |-> crashed]

Ret(op, arg, status, h, val) == [op |-> op, arg |-> arg, status |-> status, h |-> h, val |-> val]

Commit(S, r) ==
    /\ engine' = S.engine
    /\ fid' = S.fid
    /\ objects' = S.objects
    /\ rootGroup' = S.rootGroup
    /\ handles' = S.handles
    /\ crashed' = S.crashed
    /\ ret' = IF S.crashed THEN [r EXCEPT !.status = "crash"] ELSE r

\* ------------------------------------------------------------------ HDF5Object
NoHandle == [kind |-> "none", id |-> 0, mem |-> "unused", storage |-> "heap", file |-> FALSE,
             path |-> <<>>, name |-> <<>>, parent |-> NULL, dims |-> <<>>, dtors |-> 0]

Keys == 1..MaxHandles

HasFresh(S) == \E h \in Keys : S.handles[h].mem = "unused"
Fresh(S) == CHOOSE h \in Keys : /\ S.handles[h].mem = "unused"
                                /\ \A k \in Keys : S.handles[k].mem = "unused" => h <= k

isClosed(H) == H.id <= 0
isOpened(H) == H.id > 0

\* HDF5File::addObject
addObject(objs, obj) == IF obj = NULL THEN objs ELSE Append(objs, obj)

RECURSIVE EraseFirst(_, _)
EraseFirst(objs, obj) ==
    IF objs = <<>> THEN <<>>
    ELSE IF Head(objs) = obj THEN Tail(objs)
    ELSE <<Head(objs)>> \o EraseFirst(Tail(objs), obj)

\* a removeObject that erases the root Group like any other entry
removeObject_alsoRoot(objs, root, obj) ==
    IF obj = NULL THEN objs
    ELSE EraseFirst(objs, obj)

\* HDF5File::removeObject
removeObject(objs, root, obj) ==
    IF obj = NULL THEN objs
    ELSE IF obj = root THEN objs
    ELSE EraseFirst(objs, obj)

\* HDF5Object::HDF5Object(HDF5File*): the base constructor registers the new object
HDF5Object_ctor(S, h, kind, storage) ==
    [S EXCEPT !.handles[h] = [NoHandle EXCEPT !.kind = kind, !.mem = "live",
                                              !.storage = storage, !.file = TRUE],
              !.objects = addObject(@, h)]

\* the unwinding without removeObject: the object of a constructor that throws stays
\* in the registry
HDF5Object_unwind_keepsEntry(S, h) == [S EXCEPT !.handles[h] = NoHandle]

\* HDF5Object::~HDF5Object when a derived constructor throws: HDF5Object::close() does
\* nothing, the object leaves the registry and never reaches the caller
HDF5Object_unwind(S, h) ==
    [S EXCEPT !.objects = IF S.handles[h].file THEN removeObject(@, S.rootGroup, h) ELSE @,
              !.handles[h] = NoHandle]

\* a close that leaves _id as it was
HandleCloseOp_keepsId(S, h) ==
    LET H == S.handles[h]
        c == H5close(S.engine, H.kind, H.id)
    IN  IF H.id <= 0 THEN [s |-> S, status |-> "ok"]
        ELSE IF H.kind = "attr" /\ c.r < 0
        THEN [s |-> [S EXCEPT !.engine = c.e], status |-> "error"]
        ELSE [s |-> [S EXCEPT !.engine = c.e], status |-> "ok"]

\* HDF5Group::close / HDF5Dataset::close / HDF5Attribute::close
HandleCloseOp(S, h) ==
    LET H == S.handles[h]
        c == H5close(S.engine, H.kind, H.id)
    IN  IF H.id <= 0 THEN [s |-> [S EXCEPT !.handles[h].id = 0], status |-> "ok"]
        ELSE IF H.kind = "attr" /\ c.r < 0
        THEN [s |-> [S EXCEPT !.engine = c.e], status |-> "error"]
        ELSE [s |-> [S EXCEPT !.engine = c.e, !.handles[h].id = 0], status |-> "ok"]

\* a destructor that leaves the identifier of the handle to the engine
Destructor_keepsId(S, h) ==
    [S EXCEPT !.handles[h].mem = "dead", !.handles[h].dtors = Bump(@),
              !.objects = IF S.handles[h].file THEN removeObject(@, S.rootGroup, h) ELSE @]

\* ~HDF5Group / ~HDF5Dataset / ~HDF5Attribute, then ~HDF5Object: close, leave the registry
Destructor(S, h) ==
    LET c == HandleCloseOp(S, h)
        S1 == c.s
    IN  IF c.status = "error"
        THEN [S1 EXCEPT !.crashed = TRUE]     \* an exception leaves a destructor: terminate
        ELSE [S1 EXCEPT !.handles[h].mem = "dead", !.handles[h].dtors = Bump(@),
                        !.objects = IF S1.handles[h].file
                                    THEN removeObject(@, S1.rootGroup, h) ELSE @]

\* a constructor that hands out the Group whether or not the engine opened it
HDF5Group_new_neverThrows(S, name) ==
    LET h == Fresh(S)
        S1 == HDF5Object_ctor(S, h, "group", "heap")
        o == H5Gopen(S1.engine, S1.fid, name)
    IN  [s |-> [S1 EXCEPT !.engine = o.e, !.handles[h].id = o.r, !.handles[h].path = name],
         status |-> "ok", h |-> h]

\* ------------------------------------------------------------------ HDF5Group, HDF5Dataset
\* new HDF5Group(file, name)
HDF5Group_new(S, name) ==
    LET h == Fresh(S)
        S1 == HDF5Object_ctor(S, h, "group", "heap")
        o == H5Gopen(S1.engine, S1.fid, name)
    IN  IF o.r < 0
        THEN [s |-> HDF5Object_unwind(S1, h), status |-> "error", h |-> NULL]
        ELSE [s |-> [S1 EXCEPT !.engine = o.e, !.handles[h].id = o.r, !.handles[h].path = name],
              status |-> "ok", h |-> h]

\* HDF5Group::relativePath
relativePath(S, h, name) ==
    LET p == S.handles[h].path
        pathname == IF Len(p) > 0 /\ p[Len(p)] # "/" THEN p \o <<"/">> ELSE p
    IN  [s |-> S, status |-> "ok",
         val |-> IF name = <<>> THEN pathname
                 ELSE IF name[1] = "/" THEN name
                 ELSE pathname \o name]

\* the engine steps of the HDF5Dataset constructor that can fail after H5Dopen succeeded
DatasetFaults == {"none", "get_space", "get_dims"}

\* new HDF5Dataset(file, pathname)
HDF5Dataset_new(S, pathname, fault) ==
    LET h == Fresh(S)
        S1 == HDF5Object_ctor(S, h, "dataset", "heap")
        o == H5Dopen(S1.engine, S1.fid, pathname)
    IN  IF pathname = <<>> \/ o.r < 0
        THEN [s |-> HDF5Object_unwind(S1, h), status |-> "error", h |-> NULL]
        ELSE IF fault = "get_space"
        THEN \* thrown before the try block: the dataset identifier stays open
             [s |-> HDF5Object_unwind([S1 EXCEPT !.engine = o.e], h),
              status |-> "error", h |-> NULL]
        ELSE IF fault = "get_dims"
        THEN \* catch (...): H5Sclose(dataspace); H5Dclose(_id)
             [s |-> HDF5Object_unwind([S1 EXCEPT !.engine = H5close(o.e, "dataset", o.r).e], h),
              status |-> "error", h |-> NULL]
        ELSE [s |-> [S1 EXCEPT !.engine = o.e, !.handles[h].id = o.r,
                               !.handles[h].path = pathname,
                               !.handles[h].dims = o.e.dsets[o.e.ids[o.r].path].dims],
              status |-> "ok", h |-> h]

NoOffset == <<>>       \* offset_ == NULL

\* hdf5_read
hdf5_read(E, dataset, dst, dims, n, offset_) ==
    LET count == SubSeq(n, 1, dims)
        offset == IF offset_ = NoOffset THEN [i \in 1..dims |-> 0] ELSE SubSeq(offset_, 1, dims)
        offset_out == [i \in 1..dims |-> 0]
        dataspace == H5Dget_space(E, dataset)
        fsel == IF offset_ # NoOffset THEN H5Sselect_hyperslab(dataspace.space, offset, count)
                ELSE [space |-> dataspace.space, r |-> 0]
        memspace == Space(count)
        msel == IF offset_ # NoOffset THEN H5Sselect_hyperslab(memspace, offset_out, count)
                ELSE [space |-> memspace, r |-> 0]
        rd == H5Dread(E, dataset, msel.space, fsel.space, dst)
    IN  IF dataspace.r < 0 \/ fsel.r < 0 \/ msel.r < 0 \/ rd.r < 0
        THEN [status |-> "error", buf |-> dst, result |-> 0]
        ELSE [status |-> "ok", buf |-> rd.buf, result |-> Prod(count)]

\* hdf5_write with the transfer left out
hdf5_write_noTransfer(E, dataset, dst, dims, n, offset_) ==
    [e |-> E, status |-> "ok", result |-> Prod(SubSeq(n, 1, dims))]

\* hdf5_write
hdf5_write(E, dataset, dst, dims, n, offset_) ==
    LET count == SubSeq(n, 1, dims)
        offset == IF offset_ = NoOffset THEN [i \in 1..dims |-> 0] ELSE SubSeq(offset_, 1, dims)
        offset_out == [i \in 1..dims |-> 0]
        dataspace == H5Dget_space(E, dataset)
        fsel == IF offset_ # NoOffset THEN H5Sselect_hyperslab(dataspace.space, offset, count)
                ELSE [space |-> dataspace.space, r |-> 0]
        memspace == Space(count)
        msel == IF offset_ # NoOffset THEN H5Sselect_hyperslab(memspace, offset_out, count)
                ELSE [space |-> memspace, r |-> 0]
        wr == H5Dwrite(E, dataset, msel.space, fsel.space, dst)
    IN  IF dataspace.r < 0 \/ fsel.r < 0 \/ msel.r < 0 \/ wr.r < 0
        THEN [e |-> E, status |-> "error", result |-> 0]
        ELSE [e |-> wr.e, status |-> "ok", result |-> Prod(count)]

Thrown(S) == [s |-> S, status |-> "error", val |-> 0]

\* a read_2d that passes its arguments on in the order it got them
read_2d_notSwapped(S, h, x, y) ==
    LET H == S.handles[h]
        r == hdf5_read(S.engine, H.id, <<0>>, 2, <<1, 1>>, <<x, y>>)
    IN  IF isClosed(H) \/ r.status = "error" THEN Thrown(S)
        ELSE [s |-> S, status |-> "ok", val |-> r.buf[1]]

\* HDF5Dataset::read_2d and operator()(x, y)
read_2d(S, h, x, y) ==
    LET H == S.handles[h]
        r == hdf5_read(S.engine, H.id, <<0>>, 2, <<1, 1>>, <<y, x>>)
    IN  IF isClosed(H) \/ r.status = "error" THEN Thrown(S)
        ELSE [s |-> S, status |-> "ok", val |-> r.buf[1]]

\* HDF5Dataset::read_1d(double* buf, n): val is the buffer after the call
read_1d(S, h, n) ==
    LET H == S.handles[h]
        r == hdf5_read(S.engine, H.id, Zeros(n), 1, <<n>>, NoOffset)
    IN  IF isClosed(H) \/ r.status = "error" THEN Thrown(S)
        ELSE [s |-> S, status |-> "ok", val |-> r.buf]

\* HDF5Dataset::read(double* buf, n, dims)
read(S, h, n, dims) ==
    LET H == S.handles[h]
        r == hdf5_read(S.engine, H.id, Zeros(Prod(dims)), n, dims, NoOffset)
    IN  IF isClosed(H) \/ r.status = "error" THEN Thrown(S)
        ELSE [s |-> S, status |-> "ok", val |-> r.buf]

\* HDF5Dataset::read(double** array) and read(double*& array)
read_alloc(S, h) ==
    LET H == S.handles[h]
    IN  IF isClosed(H) THEN Thrown(S) ELSE read_1d(S, h, H.dims[1])

\* HDF5Dataset::write(double* array, n)
write(S, h, array, n) ==
    LET H == S.handles[h]
        w == hdf5_write(S.engine, H.id, array, 1, <<n>>, NoOffset)
    IN  IF isClosed(H) \/ w.status = "error" THEN Thrown(S)
        ELSE [s |-> [S EXCEPT !.engine = w.e], status |-> "ok", val |-> w.result]

\* HDF5Dataset::writeArray: no isClosed() test of its own
writeArray(S, h, array) ==
    LET H == S.handles[h]
        w == hdf5_write(S.engine, H.id, array, 1, <<Len(array)>>, NoOffset)
    IN  IF w.status = "error" THEN Thrown(S)
        ELSE [s |-> [S EXCEPT !.engine = w.e], status |-> "ok", val |-> 0]

\* the position in the transfer buffer of element (ix, iy, iz): the loops of readCube and
\* writeCube run ix outermost and iz innermost, i++ each time
CubeBufPos(dims, ix, iy, iz) == (ix * dims[2] + iy) * dims[3] + iz

\* the engine steps of a transfer that can be made to fail
TransferFaults == {"none", "get_space", "select", "create", "select_mem", "transfer"}

\* a catch block that closes the file space only
hdf5_spaces_keepsMemspace(E, dataset, dims, n, offset_, fault, transferred) ==
    LET count == SubSeq(n, 1, dims)
        offset == IF offset_ = NoOffset THEN [i \in 1..dims |-> 0] ELSE SubSeq(offset_, 1, dims)
        offset_out == [i \in 1..dims |-> 0]
        got == IF fault # "get_space" /\ ValidId(E, dataset) /\ E.ids[dataset].kind = "dataset"
               THEN NewId(E, "space", E.ids[dataset].path, <<>>)
               ELSE [e |-> E, r |-> -1]
        dataspace == got.r
        fsel == IF offset_ = NoOffset THEN 0
                ELSE IF fault = "select" THEN -1
                ELSE H5Sselect_hyperslab(H5Dget_space(E, dataset).space, offset, count).r
        made == IF dataspace < 0 \/ fsel < 0 THEN [e |-> got.e, r |-> 0]
                ELSE IF fault = "create" THEN [e |-> got.e, r |-> -1]
                ELSE NewId(got.e, "space", <<>>, <<>>)
        memspace == made.r
        msel == IF offset_ = NoOffset THEN 0
                ELSE IF fault = "select_mem" THEN -1
                ELSE H5Sselect_hyperslab(Space(count), offset_out, count).r
        thrown == \/ dataspace < 0 \/ fsel < 0 \/ memspace < 0 \/ msel < 0
                  \/ fault = "transfer" \/ ~transferred
        \* catch (...): if(dataspace > 0) H5Sclose(dataspace); if(memspace > 0) H5Sclose(memspace)
        c1 == IF dataspace > 0 THEN H5close(made.e, "space", dataspace).e ELSE made.e
        c2 == c1
        \* the end of the function: H5Sclose(dataspace); H5Sclose(memspace)
        e1 == H5close(made.e, "space", dataspace).e
        e2 == H5close(e1, "space", memspace).e
    IN  IF thrown THEN [e |-> c2, status |-> "error"] ELSE [e |-> e2, status |-> "ok"]

\* the region descriptors of hdf5_read and hdf5_write, which are the same statement for
\* statement but for the transfer: the file space of the dataset and the memory space
\* are identifiers of the engine, closed at the end of the function or in its catch
\* block. transferred is what H5Dread or H5Dwrite answers when it is reached
hdf5_spaces(E, dataset, dims, n, offset_, fault, transferred) ==
    LET count == SubSeq(n, 1, dims)
        offset == IF offset_ = NoOffset THEN [i \in 1..dims |-> 0] ELSE SubSeq(offset_, 1, dims)
        offset_out == [i \in 1..dims |-> 0]
        got == IF fault # "get_space" /\ ValidId(E, dataset) /\ E.ids[dataset].kind = "dataset"
               THEN NewId(E, "space", E.ids[dataset].path, <<>>)
               ELSE [e |-> E, r |-> -1]
        dataspace == got.r
        fsel == IF offset_ = NoOffset THEN 0
                ELSE IF fault = "select" THEN -1
                ELSE H5Sselect_hyperslab(H5Dget_space(E, dataset).space, offset, count).r
        made == IF dataspace < 0 \/ fsel < 0 THEN [e |-> got.e, r |-> 0]
                ELSE IF fault = "create" THEN [e |-> got.e, r |-> -1]
                ELSE NewId(got.e, "space", <<>>, <<>>)
        memspace == made.r
        msel == IF offset_ = NoOffset THEN 0
                ELSE IF fault = "select_mem" THEN -1
                ELSE H5Sselect_hyperslab(Space(count), offset_out, count).r
        thrown == \/ dataspace < 0 \/ fsel < 0 \/ memspace < 0 \/ msel < 0
                  \/ fault = "transfer" \/ ~transferred
        \* catch (...): if(dataspace > 0) H5Sclose(dataspace); if(memspace > 0) H5Sclose(memspace)
        c1 == IF dataspace > 0 THEN H5close(made.e, "space", dataspace).e ELSE made.e
        c2 == IF memspace > 0 THEN H5close(c1, "space", memspace).e ELSE c1
        \* the end of the function: H5Sclose(dataspace); H5Sclose(memspace)
        e1 == H5close(made.e, "space", dataspace).e
        e2 == H5close(e1, "space", memspace).e
    IN  IF thrown THEN [e |-> c2, status |-> "error"] ELSE [e |-> e2, status |-> "ok"]

\* hdf5_read / hdf5_write with their region descriptors: val tells which identifiers the
\* call left open and how many closes the engine refused
hdf5_transfer(S, h, m, dims, n, offset_, fault) ==
    LET H == S.handles[h]
        E == S.engine
        t == IF m = "write" THEN hdf5_write(E, H.id, [i \in 1..Prod(n) |-> 300 + i], dims, n, offset_)
             ELSE hdf5_read(E, H.id, Zeros(Prod(n)), dims, n, offset_)
        sp == hdf5_spaces(E, H.id, dims, n, offset_, fault, t.status = "ok")
        left == [open |-> OpenIds(sp.e) \ OpenIds(E), bad |-> sp.e.badCloses - E.badCloses]
    IN  IF isClosed(H) THEN [s |-> S, status |-> "error", val |-> [open |-> {}, bad |-> 0]]
        ELSE IF sp.status = "error" THEN [s |-> S, status |-> "error", val |-> left]
        ELSE [s |-> IF m = "write" THEN [S EXCEPT !.engine = t.e] ELSE S,
              status |-> "ok", val |-> left]

\* a readCube whose Cube takes the extents in the opposite order
readCube_reversedExtents(S, h) ==
    LET H == S.handles[h]
        dims == SubSeq(H.dims, 1, 3)
        r == read(S, h, 3, dims)
    IN  IF isClosed(H) \/ Len(H.dims) # 3 THEN [s |-> S, status |-> "error", val |-> 0, io |-> 0]
        ELSE IF r.status = "error" THEN [s |-> S, status |-> "error", val |-> 0, io |-> 1]
        ELSE [s |-> S, status |-> "ok", io |-> 1,
              val |-> [Buffer_new(<<dims[3], dims[2], dims[1]>>) EXCEPT !.val =
                         [j \in 1..Prod(dims) |->
                            LET c == CHOOSE c \in Coords(dims) : Cube_index(dims, c[1], c[2], c[3]) + 1 = j
                            IN  r.val[CubeBufPos(dims, c[1], c[2], c[3]) + 1]]]]

\* HDF5Dataset::readCube; io is the number of transfers it asked the engine for
readCube(S, h) ==
    LET H == S.handles[h]
        dims == SubSeq(H.dims, 1, 3)
        r == read(S, h, 3, dims)
    IN  IF isClosed(H) \/ Len(H.dims) # 3 THEN [s |-> S, status |-> "error", val |-> 0, io |-> 0]
        ELSE IF r.status = "error" THEN [s |-> S, status |-> "error", val |-> 0, io |-> 1]
        ELSE [s |-> S, status |-> "ok", io |-> 1,
              val |-> [Buffer_new(dims) EXCEPT !.val =
                         [j \in 1..Prod(dims) |->
                            LET c == CHOOSE c \in Coords(dims) : Cube_index(dims, c[1], c[2], c[3]) + 1 = j
                            IN  r.val[CubeBufPos(dims, c[1], c[2], c[3]) + 1]]]]

\* HDF5Dataset::writeCube
writeCube(S, h, cube) ==
    LET H == S.handles[h]
        dims == cube.dims
        buf == [j \in 1..cube.n |->
                  LET c == CHOOSE c \in Coords(dims) : CubeBufPos(dims, c[1], c[2], c[3]) + 1 = j
                  IN  Buffer_get(cube, c)]
        w == hdf5_write(S.engine, H.id, buf, 3, dims, NoOffset)
    IN  IF isClosed(H) \/ w.status = "error" THEN Thrown(S)
        ELSE [s |-> [S EXCEPT !.engine = w.e], status |-> "ok", val |-> 0]

\* ------------------------------------------------------------------ HDF5Attribute
\* HDF5Attribute::open
HDF5Attribute_open(S, h) ==
    LET H == S.handles[h]
        o == H5Aopen(S.engine, S.handles[H.parent].id, H.name)
    IN  IF H.id > 0 \/ H.parent = NULL THEN [s |-> S, status |-> "ok"]
        ELSE IF o.r < 0 THEN [s |-> [S EXCEPT !.handles[h].id = o.r], status |-> "error"]
        ELSE [s |-> [S EXCEPT !.engine = o.e, !.handles[h].id = o.r], status |-> "ok"]

\* HDF5Attribute::HDF5Attribute(manager, name), as reached through attribute(name) and
\* operator[](name): the value the caller receives lives where the caller puts it
\* a constructor that hands out the Attribute whether or not it could be opened
HDF5Attribute_new_neverThrows(S, parent, name) ==
    LET h == Fresh(S)
        S1 == HDF5Object_ctor(S, h, "attr", "auto")
        S2 == [S1 EXCEPT !.handles[h].name = name, !.handles[h].parent = parent]
        o == HDF5Attribute_open(S2, h)
    IN  [s |-> o.s, status |-> "ok", h |-> h]

HDF5Attribute_new(S, parent, name) ==
    LET h == Fresh(S)
        S1 == HDF5Object_ctor(S, h, "attr", "auto")
        S2 == [S1 EXCEPT !.handles[h].name = name, !.handles[h].parent = parent]
        o == HDF5Attribute_open(S2, h)
    IN  IF o.status = "error"
        THEN [s |-> HDF5Object_unwind(o.s, h), status |-> "error", h |-> NULL]
        ELSE [s |-> o.s, status |-> "ok", h |-> h]

\* HDF5Attribute::HDF5Attribute(): no file, no parent, not registered
HDF5Attribute_default(S) ==
    LET h == Fresh(S)
    IN  [s |-> [S EXCEPT !.handles[h] = [NoHandle EXCEPT !.kind = "attr", !.mem = "live",
                                                         !.storage = "auto"]],
         status |-> "ok", h |-> h]

\* HDF5Attribute::readInt / readFloat / readLong / readDouble: open(), then H5Aread
\* into result, whose status is not looked at
HDF5Attribute_read(S, h) ==
    LET o == HDF5Attribute_open(S, h)
        rd == H5Aread_num(o.s.engine, o.s.handles[h].id, 0)
    IN  IF o.status = "error" THEN [s |-> o.s, status |-> "error", val |-> 0]
        ELSE [s |-> o.s, status |-> "ok", val |-> rd.val]

\* ------------------------------------------------------------------ HDF5AttributeManager
\* strings are sequences of byte values; a C string ends at its first NUL
NUL == 0

HasNul(b) == \E i \in 1..Len(b) : b[i] = NUL

\* strlen
strlen(b) == (CHOOSE i \in 1..Len(b) : b[i] = NUL /\ \A j \in 1..(i - 1) : b[j] # NUL) - 1

\* std::string::c_str(): the characters followed by a terminator
c_str(str) == str \o <<NUL>>

\* the n bytes of an unsigned value, least significant first
LittleEndian(v, n) == [i \in 1..n |-> (v \div (256 ^ (i - 1))) % 256]

\* the most significant 32 bits of the IEEE encoding of the values the callers store
IEEEHigh(type, v) ==
    CASE v = 0 -> 0
      [] v = 7 /\ type = "float" -> 1088421888
      [] v = 7 /\ type = "double" -> 1075576832

\* what H5Awrite takes from the memory of a native value (little-endian build)
Bytes(type, v) ==
    CASE type = "int" -> LittleEndian(v, 4)
      [] type = "long" -> LittleEndian(v, 4) \o LittleEndian(0, 4)
      [] type = "float" -> LittleEndian(IEEEHigh(type, v), 4)
      [] type = "double" -> LittleEndian(0, 4) \o LittleEndian(IEEEHigh(type, v), 4)
      [] type = "string" -> v

\* sizeof the native type
SizeOf(type) == IF type \in {"int", "float"} THEN 4 ELSE 8

\* HDF5AttributeManager::names: H5Aiterate2 over parent->_id
names(S, h) ==
    LET id == S.handles[h].id
    IN  IF ValidId(S.engine, id)
        THEN [status |-> "ok",
              val |-> {a.name : a \in {b \in S.engine.attrs : b.obj = S.engine.ids[id].path}}]
        ELSE [status |-> "error", val |-> {}]

\* HDF5AttributeManager::hasAttribute answering false for every name
hasAttribute_never(S, h, name) == [s |-> S, status |-> "ok", val |-> FALSE]

\* HDF5AttributeManager::hasAttribute
hasAttribute(S, h, name) ==
    IF Len(name) = 0 THEN [s |-> S, status |-> "ok", val |-> FALSE]
    ELSE IF names(S, h).status = "error" THEN Thrown(S)
    ELSE [s |-> S, status |-> "ok", val |-> name \in names(S, h).val]

\* HDF5AttributeManager::create(name, value) for int, long, float, double:
\* writeAttribute -> writeAttributeArray
create(S, h, name, type, value) ==
    LET w == H5Acreate_write(S.engine, S.handles[h].id, name, type, SizeOf(type), value)
    IN  IF w.r < 0 THEN Thrown(S)
        ELSE [s |-> [S EXCEPT !.engine = w.e], status |-> "ok", val |-> 0]

\* HDF5AttributeManager::create(name, str, len): H5Tset_size fails for len = 0 and the
\* type keeps the one byte of H5T_C_S1; H5Awrite takes that many bytes from str
create_str(S, h, name, str, len) ==
    LET size == IF len > 0 THEN len ELSE 1
        w == H5Acreate_write(S.engine, S.handles[h].id, name, "string", size,
                             SubSeq(str, 1, size))
    IN  IF w.r < 0 THEN Thrown(S)
        ELSE [s |-> [S EXCEPT !.engine = w.e], status |-> "ok", val |-> 0]

\* HDF5AttributeManager::create(name, std::string value)
create_string(S, h, name, value) == create_str(S, h, name, c_str(value), Len(value))

\* HDF5AttributeManager::readString: buf holds exactly the bytes of the attribute and
\* string(buf) reads up to the first NUL; with none in buf it reads on past the end,
\* where tail is what lies before the next NUL
readString(S, h, name, ub, tail) ==
    LET id == H5Aopen(S.engine, S.handles[h].id, name)
        a == AttrOf(S.engine, S.engine.ids[S.handles[h].id].path, name)
        buf == Bytes(a.type, a.val)
    IN  IF id.r < 0 THEN [s |-> S, status |-> "ok", val |-> [str |-> <<>>, ok |-> FALSE]]
        ELSE IF HasNul(buf)
        THEN [s |-> S, status |-> "ok",
              val |-> [str |-> SubSeq(buf, 1, strlen(buf)), ok |-> TRUE]]
        ELSE IF ub = "abort"
        THEN [s |-> [S EXCEPT !.crashed = TRUE], status |-> "crash",
              val |-> [str |-> <<>>, ok |-> FALSE]]
        ELSE [s |-> S, status |-> "ok", val |-> [str |-> buf \o tail, ok |-> TRUE]]

\* HDF5AttributeManager::createArray(name, array, len), for int and for double
createArray(S, h, name, type, array) ==
    LET w == H5Acreate_write(S.engine, S.handles[h].id, name, type,
                             SizeOf(type) * Len(array),
                             IF Len(array) = 1 THEN array[1] ELSE array)
    IN  IF w.r < 0 THEN Thrown(S)
        ELSE [s |-> [S EXCEPT !.engine = w.e], status |-> "ok", val |-> 0]

\* HDF5AttributeManager::readDouble, and readInt / readLong / readFloat which convert
\* what it returns: the status of H5Aread is not looked at. The identifier it opens is
\* closed before it returns
readDouble(S, h, name) ==
    LET id == H5Aopen(S.engine, S.handles[h].id, name)
        rd == H5Aread_num(id.e, id.r, 0)
    IN  IF id.r < 0 THEN [s |-> S, status |-> "ok", val |-> [result |-> -1, ok |-> FALSE]]
        ELSE [s |-> S, status |-> "ok", val |-> [result |-> rd.val, ok |-> TRUE]]

\* where a failed engine step is put into readDoubleArray
ArrayFaults == {"none", "get_space", "npoints", "read"}

\* a readDoubleArray that hands out the array of a failed H5Aread
readDoubleArray_keepsResult(S, h, name, fault) ==
    LET a == H5Aopen(S.engine, S.handles[h].id, name)
        sp == H5Aget_space(a.e, a.r, fault # "get_space")
        np == H5Sget_simple_extent_npoints(sp.e, sp.r, fault # "npoints")
        rd == H5Aread_array(sp.e, a.r, fault # "read")
        Eattr == H5close(a.e, "attr", a.r).e
        Eboth == H5close(H5close(sp.e, "space", sp.r).e, "attr", a.r).e
        Left(E) == OpenIds(E) \ OpenIds(S.engine)
        Fail(E) == [s |-> S, status |-> "ok",
                    val |-> [null |-> TRUE, data |-> <<>>, ok |-> FALSE, len |-> -1,
                             open |-> Left(E)]]
    IN  IF a.r < 0 THEN Fail(a.e)
        ELSE IF sp.r < 0 THEN Fail(Eattr)
        ELSE IF np < 0 THEN Fail(Eboth)
        ELSE IF rd.r = 0
        THEN [s |-> S, status |-> "ok",
              val |-> [null |-> FALSE, data |-> rd.val, ok |-> TRUE, len |-> np,
                       open |-> Left(Eboth)]]
        ELSE [s |-> S, status |-> "ok",
              val |-> [null |-> FALSE, data |-> Zeros(np), ok |-> FALSE, len |-> -1,
                       open |-> Left(Eboth)]]

\* HDF5AttributeManager::readDoubleArray. val.null is whether NULL is returned, val.len
\* what is stored through len (-1: nothing), val.open the identifiers the call opened and
\* left open
readDoubleArray(S, h, name, fault) ==
    LET a == H5Aopen(S.engine, S.handles[h].id, name)
        sp == H5Aget_space(a.e, a.r, fault # "get_space")
        np == H5Sget_simple_extent_npoints(sp.e, sp.r, fault # "npoints")
        rd == H5Aread_array(sp.e, a.r, fault # "read")
        Eattr == H5close(a.e, "attr", a.r).e
        Eboth == H5close(H5close(sp.e, "space", sp.r).e, "attr", a.r).e
        Left(E) == OpenIds(E) \ OpenIds(S.engine)
        Fail(E) == [s |-> S, status |-> "ok",
                    val |-> [null |-> TRUE, data |-> <<>>, ok |-> FALSE, len |-> -1,
                             open |-> Left(E)]]
    IN  IF a.r < 0 THEN Fail(a.e)
        ELSE IF sp.r < 0 THEN Fail(Eattr)
        ELSE IF np < 0 THEN Fail(Eboth)
        ELSE IF rd.r = 0
        THEN [s |-> S, status |-> "ok",
              val |-> [null |-> FALSE, data |-> rd.val, ok |-> TRUE, len |-> np,
                       open |-> Left(Eboth)]]
        ELSE Fail(Eboth)

\* ---- the identifiers taken while an attribute is created
\* the engine steps of a create that can be made to fail
CreateFaults == {"none", "space", "extent", "create", "write"}

\* writeAttributeArray, by which create(name, number) and createArray work: the
\* dataspace is closed on every path after it was made, the attribute after the write
writeAttributeArray(E, id, name, type, size, values, fault) ==
    LET dspace == IF fault = "space" THEN [e |-> E, r |-> -1] ELSE NewId(E, "space", <<>>, <<>>)
        made == H5Acreate_write(dspace.e, id, name, type, size, values)
        attr_id == IF fault = "create" \/ made.r < 0 THEN [e |-> dspace.e, r |-> -1]
                   ELSE NewId(made.e, "attr", made.e.ids[id].path, name)
        closed == H5close(H5close(attr_id.e, "space", dspace.r).e, "attr", attr_id.r).e
    IN  IF dspace.r < 0 THEN [e |-> E, status |-> "error"]
        ELSE IF fault = "extent" \/ attr_id.r < 0
        THEN [e |-> H5close(dspace.e, "space", dspace.r).e, status |-> "error"]
        ELSE [e |-> closed, status |-> IF fault = "write" THEN "error" ELSE "ok"]

\* HDF5AttributeManager::create(name, str, len): the dataspace and the copy of the string
\* datatype are taken without a test; a throw leaves what was taken, and the end of the
\* function closes the dataspace and the attribute
create_str_ids(E, id, name, str, len, fault) ==
    LET size == IF len > 0 THEN len ELSE 1
        ds_id == IF fault = "space" THEN [e |-> E, r |-> -1] ELSE NewId(E, "space", <<>>, <<>>)
        atype == NewId(ds_id.e, "type", <<>>, <<>>)
        made == IF ds_id.r < 0 THEN [e |-> atype.e, r |-> -1]
                ELSE H5Acreate_write(atype.e, id, name, "string", size, SubSeq(str, 1, size))
        attr == IF fault = "create" \/ made.r < 0 THEN [e |-> atype.e, r |-> -1]
                ELSE NewId(made.e, "attr", made.e.ids[id].path, name)
        closed == H5close(H5close(attr.e, "space", ds_id.r).e, "attr", attr.r).e
    IN  IF attr.r < 0 THEN [e |-> attr.e, status |-> "error"]
        ELSE IF fault = "write" THEN [e |-> attr.e, status |-> "error"]
        ELSE [e |-> closed, status |-> "ok"]

\* one create of the manager; val tells which identifiers the call left open and how
\* many closes the engine refused. The attribute stays in the file once it was created
create_ids(S, h, name, overload, fault) ==
    LET E == S.engine
        id == S.handles[h].id
        c == CASE overload = "string" -> create_str_ids(E, id, name, <<97>>, 1, fault)
               [] overload = "array" -> writeAttributeArray(E, id, name, "double", 16, <<3, 7>>, fault)
               [] OTHER -> writeAttributeArray(E, id, name, overload, SizeOf(overload), 7, fault)
        left == [open |-> OpenIds(c.e) \ OpenIds(E), bad |-> c.e.badCloses - E.badCloses]
    IN  [s |-> [S EXCEPT !.engine = [E EXCEPT !.attrs = c.e.attrs]], status |-> c.status, val |-> left]

\* ------------------------------------------------------------------ getItemNames
TYPE_GROUP == 1
TYPE_DATASET == 2
TYPE_ATTRIBUTE == 4
TYPE_ALL == 65535

BitSet(mask, bit) == (mask \div bit) % 2 = 1

\* the immediate children of a group, by path
Children(E, p) == {q \in DOMAIN E.links : q # ROOT /\ ParentPath(q) = p}

\* H5Oget_info_by_name in _hdf5_iteration_func: a link that leads to no object has no info
QueryFails(E, q) == E.links[q] = "dangling"

\* an iteration function that never lists a named datatype
Listed_noNamedType(E, q, type) ==
    CASE E.links[q] = "group" -> BitSet(type, TYPE_GROUP)
      [] E.links[q] = "dataset" -> BitSet(type, TYPE_DATASET)
      [] OTHER -> FALSE

\* _hdf5_iteration_func: whether the child is pushed to the list
Listed(E, q, type) ==
    CASE E.links[q] = "group" -> BitSet(type, TYPE_GROUP)
      [] E.links[q] = "dataset" -> BitSet(type, TYPE_DATASET)
      [] E.links[q] = "type" -> BitSet(type, TYPE_ATTRIBUTE)
      [] OTHER -> FALSE

\* the name of a child: what follows the last slash of its path
NameOf(q) == SubSeq(q, LastSlash(q) + 1, Len(q))

\* HDF5Object::getItemNames(type): val is the set of the names returned. The iteration
\* function returns -1 for a child whose info cannot be read, which ends H5Literate
\* with a failure
getItemNames(S, h, type) ==
    LET H == S.handles[h]
        E == S.engine
    IN  IF isClosed(H) THEN [s |-> S, status |-> "ok", val |-> {}]
        ELSE IF ~(ValidId(E, H.id) /\ E.ids[H.id].kind = "group") THEN Thrown(S)
        ELSE IF \E c \in Children(E, E.ids[H.id].path) : QueryFails(E, c) THEN Thrown(S)
        ELSE [s |-> S, status |-> "ok",
              val |-> {NameOf(q) : q \in {c \in Children(E, E.ids[H.id].path) : Listed(E, c, type)}}]

\* ------------------------------------------------------------------ HDF5File
\* what undefined behaviour does once it is reached: the process is aborted, or runs on
UBOutcomes == {"abort", "continue"}

RECURSIVE DeleteAll(_, _, _)
\* the loop of HDF5File::close over its copy of _objects: delete *it
DeleteAll(S, list, ub) ==
    IF list = <<>> \/ S.crashed THEN S
    ELSE LET h == Head(list)
             H == S.handles[h]
         IN  IF H.mem # "live"
             THEN \* delete through a dangling pointer
                  IF ub = "abort" THEN [S EXCEPT !.crashed = TRUE]
                  ELSE DeleteAll([S EXCEPT !.handles[h].dtors = Bump(@)], Tail(list), ub)
             ELSE IF H.storage = "auto"
             THEN \* delete of an object that was not allocated with new
                  IF ub = "abort" THEN [Destructor(S, h) EXCEPT !.crashed = TRUE]
                  ELSE DeleteAll(Destructor(S, h), Tail(list), ub)
             ELSE DeleteAll(Destructor(S, h), Tail(list), ub)

\* HDF5File::close at the moment it reaches H5Fclose: the handles that were outstanding
\* when close() began and whose identifiers the engine still holds open
HDF5File_close_held(S, ub) ==
    LET S1 == DeleteAll(S, S.objects, ub)
    IN  IF S1.crashed \/ S1.fid <= 0 THEN {}
        ELSE {h \in Keys : S.handles[h].mem = "live" /\ ValidId(S1.engine, S.handles[h].id)}

\* close() without _objects.clear() and _rootGroup = NULL
HDF5File_close_keepsList(S, ub) ==
    LET S1 == DeleteAll(S, S.objects, ub)
        c == H5close(S1.engine, "file", S1.fid)
    IN  IF S1.crashed THEN S1
        ELSE [S1 EXCEPT !.engine = IF S1.fid > 0 THEN c.e ELSE @, !.fid = 0]

\* HDF5File::close
HDF5File_close(S, ub) ==
    LET S1 == DeleteAll(S, S.objects, ub)
        c == H5close(S1.engine, "file", S1.fid)
    IN  IF S1.crashed THEN S1
        ELSE [S1 EXCEPT !.objects = <<>>, !.rootGroup = NULL,
                        !.engine = IF S1.fid > 0 THEN c.e ELSE @, !.fid = 0]

\* an init that creates the file whether or not it exists
HDF5File_init_alwaysCreates(S, filename, readOnly, ok, rootOk) ==
    LET f == H5Fcreate(S.engine, ok)
        S1 == [S EXCEPT !.engine = f.e, !.fid = f.r]
        g == IF rootOk THEN HDF5Group_new(S1, ROOT)
             ELSE [s |-> HDF5Object_unwind(HDF5Object_ctor(S1, Fresh(S1), "group", "heap"), Fresh(S1)),
                   status |-> "error", h |-> NULL]
    IN  IF filename = <<>> THEN [s |-> S, status |-> "error"]
        ELSE IF f.r < 0 THEN [s |-> [S EXCEPT !.fid = f.r], status |-> "error"]
        ELSE IF g.status = "error" THEN [s |-> g.s, status |-> "error"]
        ELSE [s |-> [g.s EXCEPT !.rootGroup = g.h], status |-> "ok"]

\* HDF5File::HDF5File / HDF5File::init
HDF5File_init(S, filename, readOnly, ok, rootOk) ==
    LET f == IF S.engine.exists THEN H5Fopen(S.engine, readOnly, ok)
             ELSE H5Fcreate(S.engine, ok)
        S1 == [S EXCEPT !.engine = f.e, !.fid = f.r]
        \* new HDF5Group(this, "/"): when H5Gopen fails the constructor throws and the
        \* HDF5Object base leaves the registry again
        g == IF rootOk THEN HDF5Group_new(S1, ROOT)
             ELSE [s |-> HDF5Object_unwind(HDF5Object_ctor(S1, Fresh(S1), "group", "heap"), Fresh(S1)),
                   status |-> "error", h |-> NULL]
    IN  IF filename = <<>> THEN [s |-> S, status |-> "error"]
        ELSE IF f.r < 0 THEN [s |-> [S EXCEPT !.fid = f.r], status |-> "error"]
        ELSE IF g.status = "error" THEN [s |-> g.s, status |-> "error"]
        ELSE [s |-> [g.s EXCEPT !.rootGroup = g.h], status |-> "ok"]

\* HDF5File::createGroup
HDF5File_createGroup(S, name) ==
    LET abs == IF name[1] # "/" THEN <<"/">> \o name ELSE name
        c == H5Gcreate(S.engine, S.fid, abs)
    IN  IF name = <<>> \/ c.r < 0 THEN [s |-> S, status |-> "error", h |-> NULL]
        ELSE HDF5Group_new([S EXCEPT !.engine = c.e], abs)

\* HDF5File::createDataset. When the dataset was created and opening it throws, the
\* catch block repeats the cleanup that already ran: delete[] dims a second time
\* (undefined behaviour), H5Dclose and H5Sclose of identifiers closed before
HDF5File_createDataset(S, name, dims, fault, ub) ==
    LET abs == IF name[1] # "/" THEN <<"/">> \o name ELSE name
        c == H5Dcreate2(S.engine, S.fid, abs, dims)
        d == HDF5Dataset_new([S EXCEPT !.engine = c.e], abs, fault)
    IN  IF name = <<>> \/ c.r < 0 THEN [s |-> S, status |-> "error", h |-> NULL]
        ELSE IF d.status = "ok" THEN d
        ELSE IF ub = "abort" THEN [d EXCEPT !.s.crashed = TRUE]
        ELSE [d EXCEPT !.s.engine.badCloses = Bump(Bump(@))]

\* ------------------------------------------------------------------ children of a Group
\* HDF5Object::type: _type is set to 0 by the constructors and written nowhere else
HDF5Object_type(H) == 0

\* HDF5Object::isGroup / isDataset / isAttribute
isGroup(H) == BitSet(HDF5Object_type(H), TYPE_GROUP)
isDataset(H) == BitSet(HDF5Object_type(H), TYPE_DATASET)
isAttribute(H) == BitSet(HDF5Object_type(H), TYPE_ATTRIBUTE)

\* HDF5Object::groupPathname. at is the 0-based position of the last '/';
\* substr(0, at-1) with at = 0 asks for size_t(-1) characters and gives the whole
\* string; result.at() on an empty result throws
groupPathname(S, h) ==
    LET H == S.handles[h]
        at == LastSlash(H.path) - 1
        result == IF isGroup(H) THEN H.path
                  ELSE IF at = 0 THEN H.path
                  ELSE SubSeq(H.path, 1, at - 1)
    IN  IF ~isGroup(H) /\ at < 0 THEN [status |-> "ok", val |-> ROOT]
        ELSE IF result = <<>> THEN [status |-> "error", val |-> <<>>]
        ELSE IF result[Len(result)] # "/" THEN [status |-> "ok", val |-> result \o <<"/">>]
        ELSE [status |-> "ok", val |-> result]

\* HDF5Group::dataset
HDF5Group_dataset(S, h, name, fault) == HDF5Dataset_new(S, relativePath(S, h, name).val, fault)

\* HDF5Group::group
HDF5Group_group(S, h, name) == HDF5Group_new(S, relativePath(S, h, name).val)

\* HDF5Group::createGroup
HDF5Group_createGroup(S, h, name) ==
    LET g == groupPathname(S, h)
    IN  IF name = <<>> THEN [s |-> S, status |-> "error", h |-> NULL]
        ELSE IF name[1] = "/" THEN HDF5File_createGroup(S, name)
        ELSE IF g.status = "error" THEN [s |-> S, status |-> "error", h |-> NULL]
        ELSE HDF5File_createGroup(S, g.val \o name)

\* HDF5Group::createDataset
HDF5Group_createDataset(S, h, name, dims, fault, ub) ==
    LET p == S.handles[h].path
    IN  IF name = <<>> THEN [s |-> S, status |-> "error", h |-> NULL]
        ELSE IF name[1] = "/" THEN HDF5File_createDataset(S, name, dims, fault, ub)
        ELSE IF p = <<>> THEN [s |-> S, status |-> "error", h |-> NULL]
        ELSE HDF5File_createDataset(S, (IF p[Len(p)] # "/" THEN p \o <<"/">> ELSE p) \o name,
                                    dims, fault, ub)

\* HDF5Object::openGroup(pathname): a null pointer, and no exception, for the empty
\* pathname; status "null" stands for that return
HDF5Object_openGroup(S, h, pathname) ==
    LET g == groupPathname(S, h)
    IN  IF pathname = <<>> THEN [s |-> S, status |-> "null", h |-> NULL]
        ELSE IF pathname[1] = "/" THEN HDF5Group_new(S, pathname)
        ELSE IF g.status = "error" THEN [s |-> S, status |-> "error", h |-> NULL]
        ELSE HDF5Group_new(S, g.val \o pathname)

\* HDF5Object::openDataset(pathname)
HDF5Object_openDataset(S, h, pathname, fault) ==
    LET g == groupPathname(S, h)
    IN  IF pathname = <<>> THEN [s |-> S, status |-> "null", h |-> NULL]
        ELSE IF pathname[1] = "/" THEN HDF5Dataset_new(S, pathname, fault)
        ELSE IF g.status = "error" THEN [s |-> S, status |-> "error", h |-> NULL]
        ELSE HDF5Dataset_new(S, g.val \o pathname, fault)

\* ------------------------------------------------------------------ actions
Running == phase = "open" /\ ~crashed

CanOpen == Running /\ HasFresh(St) /\ Len(engine.ids) < MaxIds

Filenames == {<<>>, <<"f">>}

Construct ==
    /\ phase = "new"
    /\ \E filename \in Filenames, readOnly \in BOOLEAN, ok \in BOOLEAN, rootOk \in BOOLEAN :
          LET c == HDF5File_init(St, filename, readOnly, ok, rootOk)
          IN  /\ phase' = IF c.status = "ok" THEN "open" ELSE "failed"
              /\ Commit(c.s, Ret("HDF5File", filename, c.status, NULL, 0))
    /\ UNCHANGED <<num, wrote>>

\* the paths and names the caller passes
PathArgs == {<<>>, <<"/", "g">>, <<"d">>, <<"/", "x">>}
CreateArgs == {<<>>, <<"/", "g">>, <<"x">>}
DimArgs == {<<2>>, <<1, 1, 2>>}
AttrNames == {<<>>, <<"a">>, <<"b">>}

\* HDF5File::group
FileGroup ==
    /\ CanOpen
    /\ \E name \in PathArgs :
          LET c == HDF5Group_new(St, name)
          IN  Commit(c.s, Ret("File::group", name, c.status, c.h, 0))
    /\ UNCHANGED <<phase, num, wrote>>

\* HDF5File::dataset
FileDataset ==
    /\ CanOpen
    /\ \E name \in PathArgs, fault \in DatasetFaults :
          LET c == HDF5Dataset_new(St, name, fault)
          IN  Commit(c.s, Ret("File::dataset", name, c.status, c.h, 0))
    /\ UNCHANGED <<phase, num, wrote>>

\* HDF5File::createGroup
FileCreateGroup ==
    /\ CanOpen
    /\ \E name \in CreateArgs :
          LET c == HDF5File_createGroup(St, name)
          IN  Commit(c.s, Ret("File::createGroup", name, c.status, c.h, 0))
    /\ UNCHANGED <<phase, num, wrote>>

\* HDF5File::createDataset
FileCreateDataset ==
    /\ CanOpen
    /\ \E name \in CreateArgs, dims \in DimArgs, fault \in DatasetFaults, ub \in UBOutcomes :
          LET c == HDF5File_createDataset(St, name, dims, fault, ub)
          IN  Commit(c.s, Ret("File::createDataset", name, c.status, c.h, 0))
    /\ UNCHANGED <<phase, num, wrote>>

\* the objects the caller can still name
Held(k) == {h \in Keys : handles[h].kind = k /\ handles[h].mem \in {"live", "dead"}}
Live(k) == {h \in Keys : handles[h].kind = k /\ handles[h].mem = "live"}

\* the call goes through a pointer to an object that was destroyed: undefined behaviour
Dangling(h) ==
    \/ handles[h].mem = "dead"
    \/ handles[h].parent # NULL /\ handles[handles[h].parent].mem # "live"

\* a method call on h whose body yields c; on a destroyed object the process is aborted
\* or the body runs on what the destructor left in the object
Call(op, arg, h, c) ==
    \E ub \in UBOutcomes :
        IF Dangling(h) /\ ub = "abort"
        THEN Commit([St EXCEPT !.crashed = TRUE], Ret(op, arg, "crash", h, 0))
        ELSE Commit(c.s, Ret(op, arg, c.status, h, c.val))

\* parent->attrs.attribute(name), parent->attrs[name]
Attribute ==
    /\ CanOpen
    /\ \E p \in Live("group") \cup Live("dataset"), name \in AttrNames :
          LET c == HDF5Attribute_new(St, p, name)
          IN  Commit(c.s, Ret("attribute", name, c.status, c.h, 0))
    /\ UNCHANGED <<phase, num, wrote>>

\* HDF5Attribute a;
AttributeDefault ==
    /\ Running /\ HasFresh(St)
    /\ LET c == HDF5Attribute_default(St)
       IN  Commit(c.s, Ret("HDF5Attribute", <<>>, c.status, c.h, 0))
    /\ UNCHANGED <<phase, num, wrote>>

\* h->close() on an object the caller holds; ret.arg is the _id the call found
HandleClose ==
    /\ Running
    /\ \E h \in Keys :
          /\ handles[h].mem = "live"
          /\ LET c == HandleCloseOp(St, h)
             IN  Commit(c.s, Ret("close", <<handles[h].id>>, c.status, h, 0))
    /\ UNCHANGED <<phase, num, wrote>>

\* delete h by the caller (a Group or Dataset, the root Group included), or the end of
\* the scope of an Attribute value
HandleDelete ==
    /\ Running
    /\ \E h \in Keys :
          /\ handles[h].mem = "live"
          /\ Commit(Destructor(St, h), Ret("delete", <<>>, "ok", h, 0))
    /\ UNCHANGED <<phase, num, wrote>>

\* HDF5File::close; ret.arg is the fid the call found
FileClose ==
    /\ Running
    /\ \E ub \in UBOutcomes :
          Commit(HDF5File_close(St, ub),
                 Ret("File::close", <<fid>>, "ok", NULL, Cardinality(HDF5File_close_held(St, ub))))
    /\ UNCHANGED <<phase, num, wrote>>

\* HDF5File::~HDF5File
FileDestroy ==
    /\ Running
    /\ \E ub \in UBOutcomes :
          Commit(HDF5File_close(St, ub),
                 Ret("~HDF5File", <<fid>>, "ok", NULL, Cardinality(HDF5File_close_held(St, ub))))
    /\ phase' = "gone"
    /\ UNCHANGED <<num, wrote>>

\* the Dataset reads
DatasetRead ==
    /\ Running
    /\ \E h \in Held("dataset") :
          \/ \E x \in 0..1, y \in 0..1 : Call("read_2d", <<x, y>>, h, read_2d(St, h, x, y))
          \/ \E n \in 1..2 : Call("read_1d", <<n>>, h, read_1d(St, h, n))
          \/ \E dims \in DimArgs : Call("read", dims, h, read(St, h, Len(dims), dims))
          \/ Call("read_alloc", <<>>, h, read_alloc(St, h))
          \/ Call("readCube", <<>>, h, readCube(St, h))
    /\ UNCHANGED <<phase, num, wrote>>

Buffers == {<<5, 6>>}
Cubes == {[Buffer_new(<<1, 1, 2>>) EXCEPT !.val = <<7, 8>>]}

\* the dataset an open handle stands for
PathOf(h) == engine.ids[handles[h].id].path

\* the caller keeps what a write that returned took: kind "flat" for an array, "cube"
\* for a Cube
Remember(h, kind, val) ==
    wrote' = IF ret'.status = "ok" /\ ValidId(engine, handles[h].id)
             THEN (PathOf(h) :> [kind |-> kind, val |-> val]) @@ wrote
             ELSE wrote

\* the Dataset writes
DatasetWrite ==
    /\ Running
    /\ \E h \in Held("dataset") :
          \/ \E a \in Buffers :
                Call("write", a, h, write(St, h, a, Len(a))) /\ Remember(h, "flat", a)
          \/ \E a \in Buffers :
                Call("writeArray", a, h, writeArray(St, h, a)) /\ Remember(h, "flat", a)
          \/ \E c \in Cubes :
                Call("writeCube", c.val, h, writeCube(St, h, c)) /\ Remember(h, "cube", c)
    /\ UNCHANGED <<phase, num>>

AttributeReaders == {"readInt", "readFloat", "readLong", "readDouble"}

\* HDF5Attribute::readInt / readFloat / readLong / readDouble
AttributeRead ==
    /\ Running /\ Len(engine.ids) < MaxIds
    /\ \E h \in Held("attr"), m \in AttributeReaders :
          Call(m, <<>>, h, HDF5Attribute_read(St, h))
    /\ UNCHANGED <<phase, num, wrote>>

\* HDF5Object::getItemNames / getSubGroups / getSubDatasets on a Group
GetItemNames ==
    /\ Running
    /\ \E h \in Held("group"), type \in {TYPE_ALL, TYPE_GROUP, TYPE_DATASET} :
          Call("getItemNames", <<type>>, h, getItemNames(St, h, type))
    /\ UNCHANGED <<phase, num, wrote>>

\* HDF5AttributeManager::attribute(name) / operator[](name) of a Group or Dataset;
\* ret.val is the parent
ManagerAttribute ==
    /\ CanOpen
    /\ \E p \in Live("group") \cup Live("dataset"), name \in AttrNames,
          m \in {"attrs.attribute", "attrs.operator[]"} :
          LET c == HDF5Attribute_new(St, p, name)
          IN  Commit(c.s, Ret(m, name, c.status, c.h, p))
    /\ UNCHANGED <<phase, num, wrote>>

\* obj->openGroup(pathname) on a Group or Dataset handle; ret.val is the receiver
OpenGroup ==
    /\ CanOpen
    /\ \E g \in Live("group") \cup Live("dataset"), name \in PathArgs :
          LET c == HDF5Object_openGroup(St, g, name)
          IN  Commit(c.s, Ret("openGroup", name, c.status, c.h, g))
    /\ UNCHANGED <<phase, num, wrote>>

\* obj->openDataset(pathname) on a Group or Dataset handle
OpenDataset ==
    /\ CanOpen
    /\ \E g \in Live("group") \cup Live("dataset"), name \in PathArgs :
          LET c == HDF5Object_openDataset(St, g, name, "none")
          IN  Commit(c.s, Ret("openDataset", name, c.status, c.h, g))
    /\ UNCHANGED <<phase, num, wrote>>

\* file.rootGroup(): the pointer the File keeps, NULL once it was closed
RootGroup ==
    /\ Running
    /\ Commit(St, Ret("rootGroup", <<>>, "ok", rootGroup, 0))
    /\ UNCHANGED <<phase, num, wrote>>

\* file.removeObject(obj), as the classes of the library may call it: obj is a null
\* pointer or any handle, registered or not
RemoveObject ==
    /\ Running
    /\ \E obj \in {NULL} \cup {h \in Keys : handles[h].mem = "live"} :
          Commit([St EXCEPT !.objects = removeObject(@, rootGroup, obj)],
                 Ret("removeObject", <<obj>>, "ok", NULL, 0))
    /\ UNCHANGED <<phase, num, wrote>>

\* every combination of the three type bits, and TYPE_ALL
TypeFilters == (0..7) \cup {TYPE_ALL}

\* getItemNames(type) on an open Group
ListItems ==
    /\ Running
    /\ \E h \in Live("group"), type \in TypeFilters :
          Call("getItemNames", <<type>>, h, getItemNames(St, h, type))
    /\ UNCHANGED <<phase, num, wrote>>

\* ---- the same calls with the extents and buffers of the dataset round trip
MaxRank == 3
MaxExtent == 2

\* one shape for each rank, no two extents equal, and the shape of the 120 values
Extents(rank) == [i \in 1..rank |-> i + 1]
IODims == {Extents(r) : r \in 1..MaxRank} \cup {<<4, 5, 6>>}
Stamps == {100, 200}

\* n known values, all different
Known(n, stamp) == [i \in 1..n |-> stamp + i]

\* createDataset(name, rank, dims) with the engine answering every call
IOCreateDataset ==
    /\ CanOpen
    /\ \E dims \in IODims :
          LET c == HDF5File_createDataset(St, <<"x">>, dims, "none", "continue")
          IN  Commit(c.s, Ret("File::createDataset", <<"x">>, c.status, c.h, 0))
    /\ UNCHANGED <<phase, num, wrote>>

\* dataset(path) for the dataset created
IODataset ==
    /\ CanOpen
    /\ LET c == HDF5Dataset_new(St, <<"/", "x">>, "none")
       IN  Commit(c.s, Ret("File::dataset", <<"/", "x">>, c.status, c.h, 0))
    /\ UNCHANGED <<phase, num, wrote>>

IOWrite ==
    /\ Running
    /\ \E h \in Live("dataset"), stamp \in Stamps :
          LET n == Prod(handles[h].dims)
          IN  Call("write", <<n>>, h, write(St, h, Known(n, stamp), n))
              /\ Remember(h, "flat", Known(n, stamp))
    /\ UNCHANGED <<phase, num>>

IORead ==
    /\ Running
    /\ \E h \in Live("dataset") :
          LET dims == handles[h].dims
          IN  Call("read", dims, h, read(St, h, Len(dims), dims))
    /\ UNCHANGED <<phase, num, wrote>>

\* ds->read_2d(x, y) and (*ds)(x, y), with coordinates inside and outside the extents
Read2d ==
    /\ Running
    /\ \E h \in Live("dataset"), x \in 0..(MaxExtent + 1), y \in 0..(MaxExtent + 1),
          m \in {"read_2d", "operator()"} :
          Call(m, <<x, y>>, h, read_2d(St, h, x, y))
    /\ UNCHANGED <<phase, num, wrote>>

\* ds->readCube(); ret.arg is the number of transfers the call asked for
ReadCube ==
    /\ Running
    /\ \E h \in Live("dataset") :
          Call("readCube", <<readCube(St, h).io>>, h, readCube(St, h))
    /\ UNCHANGED <<phase, num, wrote>>

\* ds->read(buf, rank, dims), ds->read_2d(x, y) and ds->write(array, n) with an engine
\* step that fails; ret.arg is the failing step and the offset
IOTransfer ==
    /\ Running
    /\ \E h \in Live("dataset"), m \in {"read", "read_2d", "write"}, fault \in TransferFaults :
          LET dims == handles[h].dims
              n == IF m = "read" THEN dims ELSE IF m = "read_2d" THEN <<1, 1>> ELSE <<Prod(dims)>>
              offset_ == IF m = "read_2d" THEN <<0, 0>> ELSE NoOffset
          IN  Call("hdf5_" \o m, <<fault>>, h,
                   hdf5_transfer(St, h, m, Len(n), n, offset_, fault))
    /\ UNCHANGED <<phase, num, wrote>>

\* ---- the attribute manager of a Group or Dataset
MaxStrLen == 2
MaxAttrs == 2

Chars == {97, NUL}
Strings == UNION {[1..n -> Chars] : n \in 0..MaxStrLen}
ScalarTypes == {"int", "long", "float", "double"}
ValueTypes == ScalarTypes \cup {"string"}
HeapTails == {<<>>, <<63>>}

CanAdd == Running /\ Cardinality(engine.attrs) < MaxAttrs

\* attrs.create(name, value) with a value of each type create is overloaded for
AttrCreate ==
    /\ CanAdd
    /\ \E h \in Held("group") \cup Held("dataset"), name \in AttrNames, type \in ValueTypes :
          Call("create", name, h,
               [(IF type = "string" THEN create_string(St, h, name, <<97>>)
                 ELSE create(St, h, name, type, 7)) EXCEPT !.val = type])
    /\ UNCHANGED <<phase, num, wrote>>

\* attrs.create(name, value) with a std::string
AttrCreateString ==
    /\ CanAdd
    /\ \E h \in Held("group") \cup Held("dataset"), name \in AttrNames, value \in Strings :
          Call("create_string", name, h, [create_string(St, h, name, value) EXCEPT !.val = value])
    /\ UNCHANGED <<phase, num, wrote>>

\* attrs.hasAttribute(name)
HasAttribute ==
    /\ Running
    /\ \E h \in Held("group") \cup Held("dataset"), name \in AttrNames :
          Call("hasAttribute", name, h, hasAttribute(St, h, name))
    /\ UNCHANGED <<phase, num, wrote>>

\* attrs.readString(name, &ok)
ReadString ==
    /\ Running
    /\ \E h \in Held("group") \cup Held("dataset"), name \in AttrNames,
          ub \in UBOutcomes, tail \in HeapTails :
          Call("readString", name, h, readString(St, h, name, ub, tail))
    /\ UNCHANGED <<phase, num, wrote>>

\* ---- paths of groups
\* the spellings under which a caller opens the root group and the group /g
GroupPaths == {ROOT, <<"/", "g">>, <<"/", "g", "/">>, <<"/", "g", "/", "/">>, <<"g">>}

\* HDF5File::group with each spelling
FileGroupAs ==
    /\ CanOpen
    /\ \E name \in GroupPaths :
          LET c == HDF5Group_new(St, name)
          IN  Commit(c.s, Ret("File::group", name, c.status, c.h, 0))
    /\ UNCHANGED <<phase, num, wrote>>

\* g->relativePath(name)
RelativePath ==
    /\ Running
    /\ \E h \in Live("group"), name \in PathArgs :
          Call("relativePath", name, h, relativePath(St, h, name))
    /\ UNCHANGED <<phase, num, wrote>>

\* ---- children opened and created through a Group
ChildNames == {<<>>, <<"x">>, <<"g", "/", "h">>}

\* g->group(name); ret.val is g
GroupGroup ==
    /\ CanOpen
    /\ \E g \in Live("group"), name \in ChildNames :
          LET c == HDF5Group_group(St, g, name)
          IN  Commit(c.s, Ret("group", name, c.status, c.h, g))
    /\ UNCHANGED <<phase, num, wrote>>

\* g->dataset(name)
GroupDataset ==
    /\ CanOpen
    /\ \E g \in Live("group"), name \in ChildNames :
          LET c == HDF5Group_dataset(St, g, name, "none")
          IN  Commit(c.s, Ret("dataset", name, c.status, c.h, g))
    /\ UNCHANGED <<phase, num, wrote>>

\* g->createGroup(name)
GroupCreateGroup ==
    /\ CanOpen
    /\ \E g \in Live("group"), name \in ChildNames :
          LET c == HDF5Group_createGroup(St, g, name)
          IN  Commit(c.s, Ret("createGroup", name, c.status, c.h, g))
    /\ UNCHANGED <<phase, num, wrote>>

\* g->createDataset(name, 1, dims)
GroupCreateDataset ==
    /\ CanOpen
    /\ \E g \in Live("group"), name \in ChildNames :
          LET c == HDF5Group_createDataset(St, g, name, <<2>>, "none", "continue")
          IN  Commit(c.s, Ret("createDataset", name, c.status, c.h, g))
    /\ UNCHANGED <<phase, num, wrote>>

\* attrs.create(name, value) and attrs.createArray(name, values, len) with an engine step
\* that fails; ret.arg is the failing step
AttrCreateIds ==
    /\ CanAdd
    /\ \E h \in Live("group") \cup Live("dataset"), name \in AttrNames,
          overload \in ScalarTypes \cup {"string", "array"}, fault \in CreateFaults :
          Call("create_" \o overload, <<fault>>, h, create_ids(St, h, name, overload, fault))
    /\ UNCHANGED <<phase, num, wrote>>

\* ---- array attributes and the readers of the manager
MaxArr == 2

Arrays == UNION {[1..n -> {3, 7}] : n \in 0..MaxArr}

\* attrs.createArray(name, array, len) with an int or a double array
AttrCreateArray ==
    /\ CanAdd
    /\ \E h \in Held("group") \cup Held("dataset"), name \in AttrNames,
          type \in {"int", "double"}, array \in Arrays :
          Call("createArray", name, h, createArray(St, h, name, type, array))
    /\ UNCHANGED <<phase, num, wrote>>

ManagerReaders == {"attrs.readInt", "attrs.readLong", "attrs.readFloat", "attrs.readDouble"}

\* attrs.readInt(name, &ok), attrs.readLong, attrs.readFloat, attrs.readDouble
AttrRead ==
    /\ Running
    /\ \E h \in Held("group") \cup Held("dataset"), name \in AttrNames, m \in ManagerReaders :
          Call(m, name, h, readDouble(St, h, name))
    /\ UNCHANGED <<phase, num, wrote>>

\* attrs.readDoubleArray(name, &len, &ok)
ReadDoubleArray ==
    /\ Running
    /\ \E h \in Held("group") \cup Held("dataset"), name \in AttrNames, fault \in ArrayFaults :
          Call("readDoubleArray", name, h, readDoubleArray(St, h, name, fault))
    /\ UNCHANGED <<phase, num, wrote>>

\* ---- a caller of numeric.hpp: construct a buffer, assign every element in loop order
\* (first axis outermost), read elements back
NumDims == UNION {[1..r -> 0..MaxExtent] : r \in 1..4}

RECURSIVE Tag(_)
\* the value the caller stores at a coordinate: different at different coordinates
Tag(c) == IF c = <<>> THEN 1 ELSE Head(c) + (MaxExtent + 1) * Tag(Tail(c))

\* the axes that can still advance
Advancing(dims, c) == {i \in 1..Len(dims) : c[i] + 1 < dims[i]}

Max(S) == CHOOSE m \in S : \A k \in S : k <= m

\* the next coordinate of the nested loops: the innermost axis that can advance does,
\* the loops inside it start again from 0
Succ(dims, c) ==
    LET a == Max(Advancing(dims, c))
    IN  [i \in 1..Len(dims) |-> IF i < a THEN c[i] ELSE IF i = a THEN c[i] + 1 ELSE 0]

\* c comes no later than d in the order of the loops
LoopLE(c, d) ==
    c = d \/ \E i \in 1..Len(c) : c[i] < d[i] /\ \A j \in 1..(i - 1) : c[j] = d[j]

\* the constructors with extents: Array(n) and its resize(n) on the null val
NumConstruct ==
    /\ num.buf = NoBuffer /\ num.ptr = "null"
    /\ \E dims \in NumDims : \E zero \in Allocs(Prod(dims)) :
          LET r == Array_resize(NoBuffer, "null", Prod(dims), zero)
          IN  /\ r.buf.val = Buffer_new(dims).val
              /\ num' = [num EXCEPT !.buf = Buffer_new(dims), !.last = <<>>, !.ptr = r.ptr]
              /\ ret' = Ret("Buffer", dims, "ok", NULL, 0)
    /\ UNCHANGED <<phase, engine, fid, objects, rootGroup, handles, crashed, wrote>>

NumSet ==
    /\ num.buf.n > 0 /\ num.ptr = "heap"
    /\ IF num.last = <<>> THEN TRUE ELSE Advancing(num.buf.dims, num.last) # {}
    /\ LET c == IF num.last = <<>> THEN [i \in 1..Len(num.buf.dims) |-> 0]
                ELSE Succ(num.buf.dims, num.last)
       IN  /\ num' = [num EXCEPT !.buf = Buffer_set(num.buf, c, Tag(c)), !.last = c]
           /\ ret' = Ret("Buffer::set", c, "ok", NULL, Tag(c))
    /\ UNCHANGED <<phase, engine, fid, objects, rootGroup, handles, crashed, wrote>>

\* after its loops the caller reads elements back
NumGet ==
    /\ num.buf.n > 0 /\ num.ptr = "heap"
    /\ num.last # <<>>
    /\ Advancing(num.buf.dims, num.last) = {}
    /\ \E c \in Coords(num.buf.dims) :
          ret' = Ret("Buffer::get", c, "ok", NULL, Buffer_get(num.buf, c))
    /\ UNCHANGED <<phase, engine, fid, objects, rootGroup, handles, crashed, wrote, num>>

\* ---- resizes, copies, moves and fills of a buffer
MaxLen == 3

NumRest == <<phase, engine, fid, objects, rootGroup, handles, wrote>>

\* the caller goes on with the object only while its val pointer is good
NumUsable == ~crashed /\ num.ptr # "freed" /\ Len(num.buf.dims) > 0

\* the loop of test_array over an Array: arr[i] = i
ArrayFill ==
    /\ NumUsable /\ Len(num.buf.dims) = 1
    /\ num' = [num EXCEPT !.buf.val = [i \in 1..num.buf.n |-> i - 1], !.last = <<>>]
    /\ ret' = Ret("fill", <<>>, "ok", NULL, 0)
    /\ UNCHANGED <<NumRest, crashed>>

\* Array::resize(m) on an Array
ArrayResize ==
    /\ NumUsable /\ Len(num.buf.dims) = 1
    /\ \E m \in 0..MaxLen : \E zero \in Allocs(m) :
          LET r == Array_resize1(num.buf, num.ptr, m, zero)
          IN  /\ num' = [num EXCEPT !.buf = r.buf, !.ptr = r.ptr, !.last = <<>>]
              /\ ret' = Ret("Array::resize", <<m>>, r.status, NULL, 0)
    /\ UNCHANGED <<NumRest, crashed>>

\* resize(m, n) on a Matrix, resize(n1, n2, n3) on a Cube, resize(n1, n2, n3, n4) on a
\* Tesseract
DimsResize ==
    /\ NumUsable /\ Len(num.buf.dims) > 1
    /\ \E dims \in [1..Len(num.buf.dims) -> 0..MaxExtent] : \E zero \in Allocs(Prod(dims)) :
          LET r == Dims_resize(num.buf, num.ptr, dims, zero)
          IN  /\ num' = [num EXCEPT !.buf = r.buf, !.ptr = r.ptr, !.last = <<>>]
              /\ ret' = Ret("resize", dims, r.status, NULL, 0)
    /\ UNCHANGED <<NumRest, crashed>>

\* a copy is constructed from the buffer and the caller goes on with the copy
NumCopy ==
    /\ NumUsable
    /\ \E zero \in Allocs(num.buf.n) :
          LET r == Buffer_copy(num.buf, zero)
          IN  /\ num' = [num EXCEPT !.buf = r.buf, !.ptr = r.ptr]
              /\ ret' = Ret("copy", num.buf.dims, "ok", NULL, 0)
    /\ UNCHANGED <<NumRest, crashed>>

\* an object is move-constructed from the buffer: the caller goes on with the new
\* object and keeps the one moved from
NumMove ==
    /\ NumUsable
    /\ num' = [num EXCEPT !.other = Buffer_moved(num.buf)]
    /\ ret' = Ret("move", num.buf.dims, "ok", NULL, 0)
    /\ UNCHANGED <<NumRest, crashed>>

\* buffer = t
NumAssign ==
    /\ NumUsable
    /\ num' = [num EXCEPT !.buf = Array_assign(num.buf, 1), !.last = <<>>]
    /\ ret' = Ret("assign", <<1>>, "ok", NULL, 0)
    /\ UNCHANGED <<NumRest, crashed>>

\* ~Array: free(val) unless val is null; a val that realloc has released is freed again
NumDestroy ==
    /\ ~crashed /\ Len(num.buf.dims) > 0
    /\ \E ub \in UBOutcomes :
          LET abort == num.ptr = "freed" /\ ub = "abort"
          IN  /\ crashed' = abort
              /\ num' = [num EXCEPT !.buf = NoBuffer, !.ptr = "null", !.last = <<>>]
              /\ ret' = Ret("~Array", num.buf.dims, IF abort THEN "crash" ELSE "ok", NULL, 0)
    /\ UNCHANGED NumRest

\* ------------------------------------------------------------------ specification
\* a file that exists holds the group /g with the attribute a, and the dataset /d
Existing == [exists |-> TRUE,
             links |-> (ROOT :> "group") @@ (<<"/", "g">> :> "group") @@ (<<"/", "d">> :> "dataset"),
             dsets |-> (<<"/", "d">> :> [dims |-> <<2>>, data |-> <<1, 2>>]),
             attrs |-> {[obj |-> <<"/", "g">>, name |-> <<"a">>, type |-> "int", size |-> 4, val |-> 7]},
             ids |-> <<>>, rdonly |-> FALSE, badCloses |-> 0]

Absent == [exists |-> FALSE, links |-> <<>>, dsets |-> <<>>, attrs |-> {}, ids |-> <<>>,
           rdonly |-> FALSE, badCloses |-> 0]


Init ==
    /\ phase = "new"
    /\ engine \in {Existing, Absent}
    /\ fid = 0
    /\ objects = <<>>
    /\ rootGroup = NULL
    /\ handles = [h \in Keys |-> NoHandle]
    /\ ret = Ret("none", <<>>, "none", NULL, 0)
    /\ crashed = FALSE
    /\ num = [buf |-> NoBuffer, last |-> <<>>, ptr |-> "null", other |-> NoBuffer]
    /\ wrote = <<>>

Next ==
    \/ Construct
    \/ FileGroup
    \/ FileDataset
    \/ FileCreateGroup
    \/ FileCreateDataset
    \/ Attribute
    \/ HandleClose
    \/ HandleDelete
    \/ FileClose
    \/ FileDestroy

Spec == Init /\ [][Next]_vars

\* the calls on the objects a caller holds
NextUse ==
    \/ Construct
    \/ FileGroup
    \/ FileDataset
    \/ Attribute
    \/ AttributeDefault
    \/ HandleClose
    \/ FileClose
    \/ DatasetRead
    \/ DatasetWrite
    \/ AttributeRead
    \/ GetItemNames

SpecUse == Init /\ [][NextUse]_vars

\* create, write, close, reopen, read
NextIO ==
    \/ Construct
    \/ IOCreateDataset
    \/ IODataset
    \/ HandleClose
    \/ IOWrite
    \/ IORead

SpecIO == Init /\ [][NextIO]_vars

\* numeric.hpp on its own
NextNum ==
    \/ NumConstruct
    \/ NumSet
    \/ NumGet

SpecNum == Init /\ [][NextNum]_vars

\* attributes through the manager of an object
NextAttr ==
    \/ Construct
    \/ FileGroup
    \/ HandleClose
    \/ AttrCreate
    \/ HasAttribute

SpecAttr == Init /\ [][NextAttr]_vars

\* string attributes written and read back
NextStr ==
    \/ Construct
    \/ AttrCreate
    \/ AttrCreateString
    \/ ReadString

SpecStr == Init /\ [][NextStr]_vars

\* attributes of every kind and the readers of the manager
NextArr ==
    \/ Construct
    \/ HandleClose
    \/ AttrCreate
    \/ AttrCreateArray
    \/ AttrRead
    \/ ReadDoubleArray

SpecArr == Init /\ [][NextArr]_vars

\* groups opened under several spellings of their path, and relativePath on them
NextPath ==
    \/ Construct
    \/ FileGroupAs
    \/ HandleClose
    \/ RelativePath

SpecPath == Init /\ [][NextPath]_vars

\* single elements and Cubes read from datasets of known contents
Next2d ==
    \/ Construct
    \/ IOCreateDataset
    \/ IOWrite
    \/ HandleClose
    \/ Read2d
    \/ ReadCube

Spec2d == Init /\ [][Next2d]_vars

\* a file written by other programs: the root holds a group, a dataset, a named datatype
\* and an object of no known type; the group /g holds a group and a link to nothing
Foreign == [exists |-> TRUE,
            links |-> (ROOT :> "group") @@ (<<"/", "g">> :> "group") @@ (<<"/", "d">> :> "dataset")
                      @@ (<<"/", "t">> :> "type") @@ (<<"/", "u">> :> "unknown")
                      @@ (<<"/", "g", "/", "k">> :> "group") @@ (<<"/", "g", "/", "s">> :> "dangling"),
            dsets |-> (<<"/", "d">> :> [dims |-> <<2>>, data |-> <<1, 2>>]),
            attrs |-> {}, ids |-> <<>>, rdonly |-> FALSE, badCloses |-> 0]

InitList ==
    /\ phase = "new"
    /\ engine = Foreign
    /\ fid = 0
    /\ objects = <<>>
    /\ rootGroup = NULL
    /\ handles = [h \in Keys |-> NoHandle]
    /\ ret = Ret("none", <<>>, "none", NULL, 0)
    /\ crashed = FALSE
    /\ num = [buf |-> NoBuffer, last |-> <<>>, ptr |-> "null", other |-> NoBuffer]
    /\ wrote = <<>>

\* the children of the groups of that file, listed by type
NextList ==
    \/ Construct
    \/ FileGroupAs
    \/ HandleClose
    \/ ListItems

SpecList == InitList /\ [][NextList]_vars

\* attributes looked up by name on the objects of a file
NextLookup ==
    \/ Construct
    \/ FileGroup
    \/ FileDataset
    \/ ManagerAttribute
    \/ HandleClose

SpecLookup == Init /\ [][NextLookup]_vars

\* every operation that takes a name, with the empty name among its arguments
NextNames ==
    \/ Construct
    \/ FileGroup
    \/ FileDataset
    \/ FileCreateGroup
    \/ FileCreateDataset
    \/ GroupGroup
    \/ GroupDataset
    \/ GroupCreateGroup
    \/ GroupCreateDataset
    \/ OpenGroup
    \/ OpenDataset

SpecNames == Init /\ [][NextNames]_vars

\* transfers to and from datasets with the engine failing at each step in turn
NextSpaces ==
    \/ Construct
    \/ IOCreateDataset
    \/ HandleClose
    \/ IOTransfer

SpecSpaces == Init /\ [][NextSpaces]_vars

\* attributes created with the engine failing at each step in turn
NextCreate ==
    \/ Construct
    \/ FileGroup
    \/ HandleClose
    \/ AttrCreateIds

SpecCreate == Init /\ [][NextCreate]_vars

\* the factory calls of a File before and after its close()
NextClosed ==
    \/ Construct
    \/ FileGroup
    \/ FileDataset
    \/ FileCreateGroup
    \/ FileCreateDataset
    \/ RootGroup
    \/ FileClose

SpecClosed == Init /\ [][NextClosed]_vars

\* the registry of a File under removeObject
NextRegistry ==
    \/ Construct
    \/ FileGroup
    \/ FileDataset
    \/ HandleClose
    \/ RemoveObject

SpecRegistry == Init /\ [][NextRegistry]_vars

\* children opened and created through Groups at depth 0, 1 and 2
NextChild ==
    \/ Construct
    \/ GroupGroup
    \/ GroupDataset
    \/ GroupCreateGroup
    \/ GroupCreateDataset
    \/ HandleClose

SpecChild == Init /\ [][NextChild]_vars

\* the life of one buffer of numeric.hpp
NextResize ==
    \/ NumConstruct
    \/ ArrayFill
    \/ ArrayResize
    \/ DimsResize
    \/ NumCopy
    \/ NumMove
    \/ NumAssign
    \/ NumDestroy

SpecResize == Init /\ [][NextResize]_vars

\* ------------------------------------------------------------------ claims
\* C1 (as claimed): HDF5File::close() on a File whose registered handles are all live
\* leaves every one of them closed (identifier <= 0) and the registry empty.
C1_CloseClosesAll ==
    [][(ret'.op = "File::close"
        /\ \A i \in 1..Len(objects) : handles[objects[i]].mem = "live")
       => /\ objects' = <<>>
          /\ \A i \in 1..Len(objects) : isClosed(handles'[objects[i]])]_vars

\* C2: a close() of a File that is closed already (and the close the destructor runs
\* after an explicit close) destroys no handle, makes no engine call, fails nowhere and
\* leaves the File as it was.
C2_SecondCloseNoOp ==
    [][(phase = "open" /\ fid = 0 /\ ret.op = "File::close" /\ ~crashed
        /\ ret'.op \in {"File::close", "~HDF5File"})
       => /\ engine' = engine
          /\ handles' = handles
          /\ objects' = objects
          /\ rootGroup' = rootGroup
          /\ fid' = fid
          /\ ~crashed'
          /\ ret'.status = "ok"]_vars

\* a second close() ran on a File whose first close() had destroyed handles
C2_Witness ==
    /\ ret.op = "~HDF5File" /\ ret.arg = <<0>> /\ ~crashed
    /\ \E h \in Keys : handles[h].mem = "dead" /\ handles[h].kind = "dataset"

ReadWriteOps == {"read_2d", "read_1d", "read", "read_alloc", "readCube",
                 "write", "writeArray", "writeCube"} \cup AttributeReaders

\* C3 (as claimed): a read or write on a handle whose identifier is <= 0 is rejected
\* with an error.
C3_ClosedHandleRejects ==
    [][(ret'.op \in ReadWriteOps /\ handles[ret'.h].mem = "live" /\ isClosed(handles[ret'.h]))
       => ret'.status = "error"]_vars

HandleOps == ReadWriteOps \cup {"getItemNames"}

\* C4 (as claimed): after HDF5File::close(), an operation on a handle obtained from
\* the file before the close fails with an error and changes neither the engine nor the
\* registry.
C4_UseAfterFileClose ==
    [][(phase = "open" /\ fid = 0 /\ ret'.op \in HandleOps /\ handles[ret'.h].file)
       => /\ ret'.status = "error"
          /\ engine' = engine
          /\ objects' = objects]_vars

NamesDataset(E, name) == name # <<>> /\ LinkKind(E, Resolve(ROOT, name)) = "dataset"

\* C5: dataset(path) for a path that names no dataset fails, leaves the registry as it
\* was and leaves no engine identifier open that was not open before.
C5_DatasetNotFound ==
    [][(ret'.op = "File::dataset" /\ ~NamesDataset(engine, ret'.arg))
       => /\ ret'.status = "error"
          /\ objects' = objects
          /\ OpenIds(engine') = OpenIds(engine)
          /\ handles' = handles]_vars

\* dataset() failed on an open File that has other handles registered
C5_Witness ==
    /\ ret.op = "File::dataset" /\ ret.status = "error" /\ ~NamesDataset(engine, ret.arg)
    /\ fid > 0
    /\ Len(objects) >= 2

\* C6: a read of the full extent of a dataset through an open handle returns the values
\* the caller last wrote to it, each at its flat position, whatever handles were closed
\* and reopened in between.
C6_RoundTrip ==
    (/\ ret.op \in {"read", "read_1d"}
     /\ handles[ret.h].mem = "live" /\ ValidId(engine, handles[ret.h].id)
     /\ PathOf(ret.h) \in DOMAIN wrote
     /\ wrote[PathOf(ret.h)].kind = "flat")
    => /\ ret.status = "ok"
       /\ ret.val = wrote[PathOf(ret.h)].val

\* the 120 values written to the (4,5,6) dataset through the handle createDataset
\* returned are read through a handle opened after that one was closed
C6_Witness ==
    /\ ret.op = "read" /\ ret.status = "ok" /\ ret.arg = <<4, 5, 6>>
    /\ ret.val = Known(120, 100)
    /\ \E k \in Keys : /\ k < ret.h
                       /\ handles[k].mem = "live" /\ isClosed(handles[k])
                       /\ handles[k].kind = "dataset"
                       /\ handles[k].path = <<"/", "x">>

\* C7: readString straight after a successful create(name, s) on the same parent returns
\* s itself, all of its characters and no others, with ok set to true.
C7_StringRoundTrip ==
    [][(/\ ret.op = "create_string" /\ ret.status = "ok"
        /\ ret'.op = "readString" /\ ret'.arg = ret.arg /\ ret'.h = ret.h)
       => ret'.val = [str |-> ret.val, ok |-> TRUE]]_vars

\* the state of the next call
StAfter == [engine |-> engine', fid |-> fid', objects |-> objects', rootGroup |-> rootGroup',
            handles |-> handles', crashed |-> crashed']

\* the handles of open groups and datasets
OpenParents ==
    {k \in Keys : /\ handles[k].mem = "live" /\ handles[k].kind \in {"group", "dataset"}
                  /\ ValidId(engine, handles[k].id)}

\* C8: for a name not yet present on an open parent, hasAttribute(name) is false before
\* create(name, value) and true after a create that succeeded, whatever the type of the
\* value; the answer of hasAttribute changes for no other name and no other object.
C8_HasAttributeTracksCreate ==
    [][(/\ ret'.op = "create"
        /\ ret'.h \in OpenParents
        /\ ~HasAttr(engine, PathOf(ret'.h), ret'.arg))
       => /\ hasAttribute(St, ret'.h, ret'.arg).val = FALSE
          /\ ret'.status = "ok"
             => /\ hasAttribute(StAfter, ret'.h, ret'.arg).val = TRUE
                /\ \A k \in OpenParents, n \in AttrNames :
                      (PathOf(k) # PathOf(ret'.h) \/ n # ret'.arg)
                      => hasAttribute(StAfter, k, n).val = hasAttribute(St, k, n).val]_vars

\* a string attribute was created under a name the object did not have, beside another
\* attribute of the same object, and hasAttribute answers true for it
C8_Witness ==
    /\ ret.op = "create" /\ ret.val = "string" /\ ret.status = "ok" /\ ret.arg = <<"b">>
    /\ ret.h \in OpenParents
    /\ HasAttr(engine, PathOf(ret.h), <<"a">>)
    /\ hasAttribute(St, ret.h, ret.arg).val

\* C9: for ranks 1 to 4 the coordinate-to-offset mapping is injective over the in-range
\* coordinates and its image is exactly 0 .. product of extents - 1; every coordinate
\* the caller has assigned reads back the value assigned there.
C9_IndexBijective ==
    LET D == num.buf.dims
    IN  Len(D) \in 1..4
        => /\ \A c, d \in Coords(D) : index(D, c) = index(D, d) => c = d
           /\ {index(D, c) : c \in Coords(D)} = 0..(Prod(D) - 1)
           /\ (ret.op = "Buffer::get" /\ num.last # <<>> /\ LoopLE(ret.arg, num.last))
              => ret.val = Tag(ret.arg)

\* a Tesseract with unequal extents, every element assigned, the last one read back
C9_Witness ==
    /\ Len(num.buf.dims) = 4 /\ num.buf.dims[1] # num.buf.dims[2] /\ num.buf.n >= 4
    /\ num.last = [i \in 1..4 |-> num.buf.dims[i] - 1]
    /\ ret.op = "Buffer::get" /\ ret.arg = num.last /\ ret.val = Tag(num.last)

RECURSIVE Reference(_, _)
\* sum over i of c[i] times the product of the extents before axis i
Reference(dims, c) ==
    IF c = <<>> THEN 0 ELSE Head(c) + Head(dims) * Reference(Tail(dims), Tail(c))

\* C10: for Matrix, Cube and Tesseract, index(coord) is the reference offset for every
\* in-range coordinate, and an assignment at a coordinate lands at that offset.
C10_IndexIsReference ==
    LET D == num.buf.dims
    IN  Len(D) \in 2..4
        => /\ \A c \in Coords(D) : index(D, c) = Reference(D, c)
           /\ ret.op = "Buffer::set" => num.buf.val[Reference(D, ret.arg) + 1] = ret.val

\* an assignment into a Cube with unequal extents, away from the origin on two axes
C10_Witness ==
    /\ ret.op = "Buffer::set" /\ Len(num.buf.dims) = 3
    /\ num.buf.dims[1] # num.buf.dims[2]
    /\ ret.arg[1] > 0 /\ ret.arg[3] > 0
    /\ num.buf.val[Reference(num.buf.dims, ret.arg) + 1] = Tag(ret.arg)

\* C11: Array::resize(m) on an array of length n ends with size() = m, every element
\* below min(n, m) as it was and every element from n up to m - 1 zero.
C11_ResizeKeepsPrefix ==
    [][ret'.op = "Array::resize"
       => LET m == ret'.arg[1]
              n == num.buf.n
          IN  /\ ret'.status = "ok"
              /\ num'.buf.n = m /\ Len(num'.buf.val) = m
              /\ \A i \in 1..Min(n, m) : num'.buf.val[i] = num.buf.val[i]
              /\ \A i \in (n + 1)..m : num'.buf.val[i] = 0]_vars

\* C12: the flat length of a Matrix, Cube or Tesseract, and of an object one of them
\* was moved from, is the product of its extents.
C12_SizeIsProduct ==
    /\ Len(num.buf.dims) > 1 => num.buf.n = Prod(num.buf.dims) /\ Len(num.buf.val) = num.buf.n
    /\ Len(num.other.dims) > 1 => num.other.n = Prod(num.other.dims)

\* a Cube that was filled, resized to other extents and then moved from
C12_Witness ==
    /\ ret.op = "move" /\ Len(num.buf.dims) = 3 /\ num.buf.n > 1
    /\ num.buf.dims[1] # num.buf.dims[3]
    /\ num.other = [dims |-> <<0, 0, 0>>, n |-> 0, val |-> <<>>]

\* C13: after a multi-dimensional resize every element of the buffer is zero.
C13_ResizeZeroes ==
    [][ret'.op = "resize"
       => /\ ret'.status = "ok"
          /\ \A i \in 1..num'.buf.n : num'.buf.val[i] = 0]_vars

C15_CloseUnregisters ==
    [][/\ ret'.op = "close" /\ ret'.status = "ok"
       /\ handles[ret'.h].kind \in {"group", "dataset"} /\ ret'.h # rootGroup
       => \A i \in 1..Len(objects') : objects'[i] # ret'.h]_vars

\* C16: the registry of a File never holds the root Group
C16_RootNotRegistered ==
    rootGroup # NULL => \A i \in 1..Len(objects) : objects[i] # rootGroup

\* C19: constructing a File ends in an error whenever the filename is empty or the
\* engine gives a file identifier <= 0; a file that is absent is created, a file that
\* exists is opened with its contents
C19_OpenOrCreate ==
    [][ret'.op = "HDF5File"
       => /\ (ret'.arg = <<>> \/ fid' <= 0) => ret'.status = "error"
          /\ ret'.arg = <<>> => engine' = engine
          /\ ret'.status = "ok"
             => /\ ValidId(engine', fid') /\ engine'.ids[fid'].kind = "file"
                /\ engine'.exists
                /\ IF engine.exists
                   THEN /\ engine'.links = engine.links /\ engine'.dsets = engine.dsets
                        /\ engine'.attrs = engine.attrs
                   ELSE DOMAIN engine'.links = {ROOT}]_vars

\* a File has been constructed on a path that was absent
C19_Witness ==
    /\ ret.op = "HDF5File" /\ ret.status = "ok" /\ ret.arg # <<>>
    /\ fid > 0 /\ engine.exists /\ DOMAIN engine.links = {ROOT}

\* the parent is open and holds a numeric attribute of that name
Transferable(h, name) ==
    /\ h \in OpenParents /\ HasAttr(engine, PathOf(h), name)
    /\ AttrOf(engine, PathOf(h), name).type # "string"

\* C17: readDoubleArray returns a non-null array exactly when it sets ok to true, and
\* then len is the number of elements of the attribute; on every failure the result is
\* null and ok false; the attribute and dataspace identifiers it opened are closed when
\* it returns. (The call leaves the file and the handles as they were, so the state it
\* returns in is the state it ran in.)
C17_ArrayOrFailure ==
    ret.op = "readDoubleArray"
    => LET v == ret.val
       IN  /\ ret.status = "ok"
           /\ v.null = ~v.ok
           /\ v.ok => /\ Transferable(ret.h, ret.arg)
                       /\ v.len = Npoints(AttrOf(engine, PathOf(ret.h), ret.arg))
                       /\ Len(v.data) = v.len
           /\ ~Transferable(ret.h, ret.arg) => v.null /\ ~v.ok
           /\ v.open = {}

\* an array attribute of two elements has been read
C17_Witness ==
    /\ ret.op = "readDoubleArray" /\ ret.val.ok /\ ret.val.len = 2
    /\ ret.val.data = <<3, 7>>

\* C18: readInt, readLong, readFloat and readDouble of the manager raise nothing, set
\* ok to true only when the attribute was opened and its value transferred, and return
\* -1 with ok false whenever the open or the transfer fails
C18_ReadersReportFailure ==
    ret.op \in ManagerReaders
    => /\ ret.status = "ok"
       /\ ret.val.ok => Transferable(ret.h, ret.arg)
       /\ ~Transferable(ret.h, ret.arg) => ret.val = [result |-> -1, ok |-> FALSE]

RECURSIVE StripSlashes(_)
\* a path without the separators at its end
StripSlashes(p) ==
    IF p # <<>> /\ p[Len(p)] = "/" THEN StripSlashes(SubSeq(p, 1, Len(p) - 1)) ELSE p

\* C20: relativePath(name) is name itself when name starts with '/', and otherwise the
\* path of the Group ending in exactly one '/', followed by name
C20_RelativePath ==
    ret.op = "relativePath"
    => ret.val = IF ret.arg # <<>> /\ ret.arg[1] = "/" THEN ret.arg
                 ELSE StripSlashes(handles[ret.h].path) \o <<"/">> \o ret.arg

ChildOps == {"group", "dataset", "createGroup", "createDataset"}

\* C21: a child operation of a Group g with a relative name n that returns a handle
\* returns it for the object at g.relativePath(n)
C21_ChildOpsSamePath ==
    [][(ret'.op \in ChildOps /\ ret'.status = "ok")
       => engine'.ids[handles'[ret'.h].id].path
              = Resolve(ROOT, relativePath(St, ret'.val, ret'.arg).val)]_vars

\* C27: the type tag tells the kind of a handle: a Group is a group and no dataset, a
\* Dataset is a dataset and no group, an Attribute is an attribute
C27_TypeTagTellsKind ==
    \A h \in Keys :
        handles[h].mem = "live"
        => /\ handles[h].kind = "group" => isGroup(handles[h]) /\ ~isDataset(handles[h])
           /\ handles[h].kind = "dataset" => isDataset(handles[h]) /\ ~isGroup(handles[h])
           /\ handles[h].kind = "attr" => isAttribute(handles[h])

\* C22: read_2d(x, y) and operator()(x, y) on an open dataset of rank 2, with y inside
\* the first extent and x inside the second, return the one element at file offset
\* (y, x)
C22_Read2dTransposed ==
    (/\ ret.op \in {"read_2d", "operator()"}
     /\ handles[ret.h].mem = "live" /\ ValidId(engine, handles[ret.h].id)
     /\ Len(handles[ret.h].dims) = 2
     /\ ret.arg[2] < handles[ret.h].dims[1] /\ ret.arg[1] < handles[ret.h].dims[2])
    => /\ ret.status = "ok"
       /\ ret.val = engine.dsets[PathOf(ret.h)].data[
                        ret.arg[2] * handles[ret.h].dims[2] + ret.arg[1] + 1]

\* the last element of the second row of the (2, 3) dataset, after it was written
C22_Witness ==
    /\ ret.op = "read_2d" /\ ret.status = "ok" /\ ret.arg = <<2, 1>>
    /\ handles[ret.h].dims = <<2, 3>> /\ ret.val = 106

\* C23: readCube() on an open Dataset of a rank other than 3 ends in an error without a
\* transfer asked of the engine; on a Dataset of rank 3 it returns a Cube with the
\* extents of the Dataset
C23_ReadCubeRank ==
    (/\ ret.op = "readCube"
     /\ handles[ret.h].mem = "live" /\ ValidId(engine, handles[ret.h].id))
    => IF Len(engine.dsets[PathOf(ret.h)].dims) # 3
       THEN ret.status = "error" /\ ret.arg = <<0>>
       ELSE /\ ret.status = "ok"
            /\ ret.val.dims = engine.dsets[PathOf(ret.h)].dims
            /\ ret.val.n = Prod(ret.val.dims) /\ Len(ret.val.val) = ret.val.n

\* the (2, 3, 4) dataset has been read into a Cube after it was written
C23_Witness ==
    /\ ret.op = "readCube" /\ ret.status = "ok"
    /\ ret.val.dims = <<2, 3, 4>> /\ ret.val.val[1] = 101

\* the bit of the type filter that stands for the type of a child
TypeBit(kind) ==
    CASE kind = "group" -> TYPE_GROUP
      [] kind = "dataset" -> TYPE_DATASET
      [] kind = "type" -> TYPE_ATTRIBUTE

\* the group an open handle of the last call stands for
ListedGroup == engine.ids[handles[ret.h].id].path

ListCall ==
    /\ ret.op = "getItemNames" /\ ret.status # "crash"
    /\ handles[ret.h].mem = "live" /\ handles[ret.h].kind = "group"
    /\ ValidId(engine, handles[ret.h].id)

C25_SkipsUnqueryable ==
    ListCall
    => /\ ret.status = "ok"
       /\ ret.val = {NameOf(q) : q \in {c \in Children(engine, ListedGroup) :
                         /\ engine.links[c] \in {"group", "dataset", "type"}
                         /\ BitSet(ret.arg[1], TypeBit(engine.links[c]))}}

C28_CloseClosesChildren ==
    [][(/\ ret.op \in {"group", "dataset"} /\ ret.status = "ok"
        /\ ret'.op = "close" /\ ret'.status = "ok" /\ ret'.h = ret.val)
       => isClosed(handles'[ret.h])]_vars

\* the operations of the File and of its objects that take a filename or a path
NameOps == {"HDF5File", "File::group", "File::dataset", "File::createGroup",
            "File::createDataset", "group", "dataset", "createGroup", "createDataset",
            "openGroup", "openDataset"}

\* C29: an operation that is given the empty string for the filename or for the path of
\* a child ends in an error: it returns neither a null pointer nor a handle
C29_EmptyNameIsError ==
    (ret.op \in NameOps /\ ret.arg = <<>>) => ret.status = "error"

\* C30: when dataset(path) fails for a path that names a dataset, that is after the
\* identifier of the dataset was acquired, every identifier it acquired is closed again
\* and the handle is not left in the registry
C30_FailedOpenReleases ==
    [][(/\ ret'.op = "File::dataset" /\ ret'.status = "error"
        /\ NamesDataset(engine, ret'.arg))
       => /\ OpenIds(engine') = OpenIds(engine)
          /\ objects' = objects
          /\ handles' = handles]_vars

TransferOps == {"hdf5_read", "hdf5_read_2d", "hdf5_write"}

\* C31: a read or write of a Dataset leaves no region descriptor open that was not open
\* before and closes none twice, whether it succeeds or an engine step of it fails
C31_SpacesReleased ==
    (ret.op \in TransferOps /\ ret.status # "crash")
    => ret.val.open = {} /\ ret.val.bad = 0

\* a write failed at the transfer, after both descriptors were made
C31_Witness ==
    /\ ret.op = "hdf5_write" /\ ret.status = "error" /\ ret.arg = <<"transfer">>
    /\ handles[ret.h].mem = "live" /\ ValidId(engine, handles[ret.h].id)
    /\ ret.val.open = {}

CreateOps == {"create_" \o t : t \in ScalarTypes \cup {"string", "array"}}

\* C32: every create overload and createArray leaves no region, datatype or attribute
\* identifier open that it took, whether it succeeds or an engine step of it fails
C32_CreateReleases ==
    (ret.op \in CreateOps /\ ret.status # "crash")
    => ret.val.open = {} /\ ret.val.bad = 0

\* C33: createGroup and createDataset of the File release every engine identifier and
\* buffer they took exactly once: the engine is asked for no close of an identifier that
\* is closed already, no buffer is freed twice, and a call that fails leaves no
\* identifier open that was not open before
C33_CreateReleasesOnce ==
    [][ret'.op \in {"File::createGroup", "File::createDataset"}
       => /\ engine'.badCloses = engine.badCloses
          /\ crashed' = crashed
          /\ ret'.status = "error" => OpenIds(engine') = OpenIds(engine)]_vars

\* C34: when the constructor of a File fails after the engine gave it a file identifier,
\* that identifier is closed again and the registry is empty
C34_FailedOpenReleasesFile ==
    (ret.op = "HDF5File" /\ ret.status = "error")
    => OpenIds(engine) = {} /\ objects = <<>>

\* C35: a close() of the File that runs to its end has released the engine identifier of
\* every handle that was outstanding, the root Group among them, by the time it releases
\* the file identifier; it releases the file identifier once when fid is positive and
\* asks nothing of the engine when it is not
C35_HandlesBeforeFile ==
    [][(ret'.op \in {"File::close", "~HDF5File"} /\ ~crashed')
       => /\ ret'.val = 0
          /\ \A h \in Keys : handles[h].mem = "live" => ~ValidId(engine', handles[h].id)
          /\ fid' = 0
          /\ IF fid > 0
             THEN ~ValidId(engine', fid) /\ engine'.badCloses = engine.badCloses
             ELSE engine' = engine]_vars

\* close() ran on a File with the root Group and a Dataset open and released all three
C35_Witness ==
    /\ ret.op = "File::close" /\ ret.arg[1] > 0 /\ ~crashed /\ fid = 0
    /\ OpenIds(engine) = {}
    /\ \E h \in Keys : handles[h].mem = "dead" /\ handles[h].kind = "dataset"
    /\ \E h \in Keys : handles[h].mem = "dead" /\ handles[h].kind = "group"

\* C36: readCube() takes the element (ix, iy, iz) of the Cube from the position
\* Cube::index(ix, iy, iz) = ix + iy*d0 + iz*d0*d1 of the flat transfer buffer, which a
\* read of the full extent fills with the flat data of the dataset
C36_CubeBufferIsIndex ==
    (/\ ret.op = "readCube" /\ ret.status = "ok"
     /\ handles[ret.h].mem = "live" /\ ValidId(engine, handles[ret.h].id))
    => \A c \in Coords(ret.val.dims) :
          Buffer_get(ret.val, c)
              = engine.dsets[PathOf(ret.h)].data[Cube_index(ret.val.dims, c[1], c[2], c[3]) + 1]

\* C37: whatever factory calls, close() calls, deletes by the caller and closes of the
\* File came before, every entry of the registry is a handle that was not destroyed, and
\* no handle was destroyed more than once
C37_RegistryHoldsLiveHandles ==
    /\ \A i \in 1..Len(objects) : handles[objects[i]].mem = "live"
    /\ \A h \in Keys : handles[h].dtors <= 1

\* C38: a close() of the File leaves alone every Attribute the caller got from
\* attribute(name) or operator[](name) and still holds: it is not destroyed and its
\* identifier is not released
C38_CloseLeavesAttributes ==
    [][ret'.op \in {"File::close", "~HDF5File"}
       => \A h \in Keys : (handles[h].kind = "attr" /\ handles[h].mem = "live")
                             => handles'[h] = handles[h]]_vars

FactoryOps == {"File::group", "File::dataset", "File::createGroup", "File::createDataset"}

\* C39: on a File that was closed, group(), dataset(), createGroup() and createDataset()
\* end in an error, rootGroup() gives no Group, and the registry stays empty
C39_ClosedFileRefuses ==
    [][(phase = "open" /\ fid = 0)
       => /\ ret'.op \in FactoryOps
             => ret'.status = "error" /\ ret'.h = NULL /\ handles' = handles
          /\ ret'.op = "rootGroup" => ret'.h = NULL
          /\ objects = <<>> /\ objects' = <<>>
          /\ OpenIds(engine') = OpenIds(engine)]_vars

\* createGroup was refused on a File whose close() had destroyed a Dataset handle
C39_Witness ==
    /\ phase = "open" /\ fid = 0
    /\ ret.op = "File::createGroup" /\ ret.arg = <<"x">> /\ ret.status = "error"
    /\ \E h \in Keys : handles[h].mem = "dead" /\ handles[h].kind = "dataset"

\* C40: removeObject(obj) takes the first entry equal to obj out of the registry and
\* leaves the other entries in their order; for a null pointer, the root Group and an
\* object that is not registered it leaves the registry as it is; it never fails and
\* touches nothing else
C40_RemoveObjectFrame ==
    [][ret'.op = "removeObject"
       => /\ ret'.status = "ok" /\ ~crashed'
          /\ handles' = handles /\ engine' = engine /\ rootGroup' = rootGroup /\ fid' = fid
          /\ LET obj == ret'.arg[1]
                 At == {i \in 1..Len(objects) : objects[i] = obj}
             IN  IF obj = NULL \/ obj = rootGroup \/ At = {}
                 THEN objects' = objects
                 ELSE \E i \in At :
                        /\ \A j \in At : i <= j
                        /\ objects' = SubSeq(objects, 1, i - 1) \o SubSeq(objects, i + 1, Len(objects))]_vars

\* the middle one of three entries was removed
C40_Witness ==
    /\ ret.op = "removeObject" /\ ret.arg = <<2>>
    /\ objects = <<1, 3>> /\ rootGroup = 1
    /\ handles[2].mem = "live"
====
